---- MODULE Spec2Model ----
(***************************************************************************)
(* Two-tier job store (Redis hash + SQL row), async intake, rq worker,     *)
(* startup recovery and the GET read path of ansible-runner-service.       *)
(*                                                                         *)
(* Python values are modelled as follows:                                  *)
(*   - an Optional[T] is a set: {} is None, {v} is the value v;            *)
(*   - a dict of extra_vars is a set of <<key, value>> pairs;              *)
(*   - the Redis database is a function from the existing keys to their    *)
(*     hashes (a hash is a function from field names to strings); a key    *)
(*     that is not in the domain does not exist;                           *)
(*   - the jobs table is a function from the existing primary keys to rows;*)
(*   - datetimes are seconds on the clock `now`.                           *)
(* Every Redis command and every SQL commit is one step that either takes  *)
(* effect or raises; a command that raises leaves its store unchanged.     *)
(***************************************************************************)
EXTENDS Integers, Sequences, FiniteSets, TLC

\* ---- bounds of the model ----
MaxJobs == 1
MaxTicks == 1
MaxProviders == 2

\* ---- program constants ----
TTL == 86400
StaleThreshold == 3600

JobIds == 1..MaxJobs

\* the clock advances by a bit more than the stale threshold or by one TTL
TickSteps == {StaleThreshold + 1, TTL}

PENDING == "pending"
RUNNING == "running"
SUCCESSFUL == "successful"
FAILED == "failed"
JobStatus == {PENDING, RUNNING, SUCCESSFUL, FAILED}

None == {}

Some(v) == {v}

TheValue(o) == CHOOSE v \in o : TRUE

\* the request bodies an API client submits (playbook, extra_vars, inventory)
Requests ==
  { [playbook |-> "hello.yml", extra_vars |-> {<<"name", "World">>}, inventory |-> "localhost,"],
    [playbook |-> "deploy/app.yml", extra_vars |-> {}, inventory |-> "web,"] }

ExtraVarsValues == {r.extra_vars : r \in Requests}

\* the return codes of the runner
ReturnCodes == {0, 2}

JobResults == {[rc |-> c] : c \in ReturnCodes}

ErrExec == "Clone failed"
ErrStore == "DB connection failed"
ErrRecovery == "Worker crashed or timed out"

\* ---- string encodings used by the Redis hash ----
JobKey(job_id) == "job:" \o ToString(job_id)

IsoFormat(t) == ToString(t) \o "+00:00"

JsonDumpsVars(d) ==
  IF d = {} THEN "{}"
  ELSE LET p == CHOOSE q \in d : TRUE
       IN  "{\"" \o p[1] \o "\": \"" \o p[2] \o "\"}"

JsonDumpsResult(r) == "{\"rc\": " \o ToString(r.rc) \o "}"

\* json.loads / fromisoformat: defined on the encodings only ("" does not parse)
CanLoadVars(s) == \E d \in ExtraVarsValues : JsonDumpsVars(d) = s

JsonLoadsVars(s) == CHOOSE d \in ExtraVarsValues : JsonDumpsVars(d) = s

JsonLoadsResult(s) == CHOOSE r \in JobResults : JsonDumpsResult(r) = s

\* the values the clock can take
Times == {a * (StaleThreshold + 1) + b * TTL : a \in 0..MaxTicks, b \in 0..MaxTicks}

CanParseIso(s) == \E t \in Times : IsoFormat(t) = s

FromIsoFormat(s) == CHOOSE t \in Times : IsoFormat(t) = s

VARIABLES
  now,      \* the wall clock, in seconds
  ticks,    \* how often the clock has advanced
  redis,    \* Redis: key -> hash
  expiry,   \* Redis: key -> the time at which the key expires (keys with a TTL)
  db,       \* the jobs table: id -> row
  queue,    \* the rq queue: a sequence of descriptors
  nextId,   \* the next fresh job id (uuid4)
  api,      \* the request handler of POST /api/v1/jobs (async path)
  worker,   \* the rq worker running execute_job
  recovery, \* the startup hook running recover_stale_jobs
  client,   \* a client polling GET /api/v1/jobs/{id}
  crashed,  \* history: ids of the jobs whose worker process died while holding them
  git_providers, \* GIT_PROVIDERS as load_providers returns it: a sequence of GitProvider
  resolved, \* the last validate_repo_url call: its URL and its outcome
  children  \* history: the child processes started with subprocess.run

vars ==
  <<now, ticks, redis, expiry, db, queue, nextId, api, worker, recovery, client, crashed,
    git_providers, resolved, children>>

\* ---- Redis commands ----
EmptyHash == [k \in {} |-> ""]

HGetAll(key) == IF key \in DOMAIN redis THEN redis[key] ELSE EmptyHash

Exists(key) == key \in DOMAIN redis

\* HSET key mapping: creates the key when missing, overwrites the given fields
HSetHash(h, mapping) ==
  [k \in (DOMAIN h) \cup (DOMAIN mapping) |-> IF k \in DOMAIN mapping THEN mapping[k] ELSE h[k]]

HSet(db0, key, mapping) ==
  [k \in (DOMAIN db0) \cup {key} |-> IF k = key THEN HSetHash(IF key \in DOMAIN db0 THEN db0[key] ELSE EmptyHash, mapping) ELSE db0[k]]

Put(f, key, v) == [k \in (DOMAIN f) \cup {key} |-> IF k = key THEN v ELSE f[k]]

\* ---- JobStore (job_store.py) ----
NewJob(job_id, playbook, extra_vars, inventory, created_at) ==
  [job_id |-> job_id, status |-> PENDING, playbook |-> playbook, extra_vars |-> extra_vars,
   inventory |-> inventory, created_at |-> created_at, started_at |-> None,
   finished_at |-> None, result |-> None, error |-> None]

\* the mapping _save_job writes with HSET
SaveJobData(job) ==
  [job_id |-> ToString(job.job_id),
   status |-> job.status,
   playbook |-> job.playbook,
   extra_vars |-> JsonDumpsVars(job.extra_vars),
   inventory |-> job.inventory,
   created_at |-> IsoFormat(job.created_at),
   started_at |-> IF job.started_at # None THEN IsoFormat(TheValue(job.started_at)) ELSE "",
   finished_at |-> IF job.finished_at # None THEN IsoFormat(TheValue(job.finished_at)) ELSE "",
   result |-> IF job.result # None THEN JsonDumpsResult(TheValue(job.result)) ELSE "",
   error |-> IF job.error # None THEN TheValue(job.error) ELSE ""]

\* get_str of _deserialize_job: data.get(key, b"").decode()
GetStr(data, key) == IF key \in DOMAIN data THEN data[key] ELSE ""

\* _deserialize_job raises unless status, extra_vars and created_at parse
CanDeserialize(data) ==
  /\ GetStr(data, "status") \in JobStatus
  /\ CanLoadVars(GetStr(data, "extra_vars"))
  /\ CanParseIso(GetStr(data, "created_at"))
  /\ GetStr(data, "started_at") # "" => CanParseIso(GetStr(data, "started_at"))
  /\ GetStr(data, "finished_at") # "" => CanParseIso(GetStr(data, "finished_at"))

DeserializeJob(data) ==
  [job_id |-> GetStr(data, "job_id"),
   status |-> GetStr(data, "status"),
   playbook |-> GetStr(data, "playbook"),
   extra_vars |-> JsonLoadsVars(GetStr(data, "extra_vars")),
   inventory |-> GetStr(data, "inventory"),
   created_at |-> FromIsoFormat(GetStr(data, "created_at")),
   started_at |-> IF GetStr(data, "started_at") # "" THEN Some(FromIsoFormat(GetStr(data, "started_at"))) ELSE None,
   finished_at |-> IF GetStr(data, "finished_at") # "" THEN Some(FromIsoFormat(GetStr(data, "finished_at"))) ELSE None,
   result |-> IF GetStr(data, "result") # "" THEN Some(JsonLoadsResult(GetStr(data, "result"))) ELSE None,
   error |-> IF GetStr(data, "error") # "" THEN Some(GetStr(data, "error")) ELSE None]

\* the arguments of one update_status call
UpdateArgs(job_id, status, started_at, finished_at, result, error) ==
  [job_id |-> job_id, status |-> status, started_at |-> started_at,
   finished_at |-> finished_at, result |-> result, error |-> error]

NoArgs == UpdateArgs(0, PENDING, None, None, None, None)

\* the `updates` mapping of update_status: a field is written when its argument is truthy
UpdatesMapping(a) ==
  LET dom == {"status"}
               \cup (IF a.started_at # None THEN {"started_at"} ELSE {})
               \cup (IF a.finished_at # None THEN {"finished_at"} ELSE {})
               \cup (IF a.result # None THEN {"result"} ELSE {})
               \cup (IF a.error # None /\ a.error # Some("") THEN {"error"} ELSE {})
  IN  [k \in dom |->
         CASE k = "status" -> a.status
           [] k = "started_at" -> IsoFormat(TheValue(a.started_at))
           [] k = "finished_at" -> IsoFormat(TheValue(a.finished_at))
           [] k = "result" -> JsonDumpsResult(TheValue(a.result))
           [] k = "error" -> TheValue(a.error)]

\* ---- JobRepository (repository.py) ----
\* a create that inserts the row without the request's extra_vars
RepositoryCreateDropsVars(job_id, playbook, extra_vars, inventory, created_at) ==
  [id |-> job_id, status |-> PENDING, playbook |-> playbook, extra_vars |-> {},
   inventory |-> inventory, created_at |-> created_at, started_at |-> None,
   finished_at |-> None, result_rc |-> None, error |-> None]

RepositoryCreate(job_id, playbook, extra_vars, inventory, created_at) ==
  [id |-> job_id, status |-> PENDING, playbook |-> playbook, extra_vars |-> extra_vars,
   inventory |-> inventory, created_at |-> created_at, started_at |-> None,
   finished_at |-> None, result_rc |-> None, error |-> None]

\* an update that writes the optional columns and leaves the status column alone
RepositoryUpdateRowKeepsStatus(row, status, started_at, finished_at, result_rc, error) ==
  [row EXCEPT !.started_at = IF started_at # None THEN started_at ELSE @,
              !.finished_at = IF finished_at # None THEN finished_at ELSE @,
              !.result_rc = IF result_rc # None THEN result_rc ELSE @,
              !.error = IF error # None THEN error ELSE @]

\* the row after repository.update_status: an argument that is None keeps the column
RepositoryUpdateRow(row, status, started_at, finished_at, result_rc, error) ==
  [row EXCEPT !.status = status,
              !.started_at = IF started_at # None THEN started_at ELSE @,
              !.finished_at = IF finished_at # None THEN finished_at ELSE @,
              !.result_rc = IF result_rc # None THEN result_rc ELSE @,
              !.error = IF error # None THEN error ELSE @]

\* the table after repository.update_status(job_id, ...): no row, no change (returns False)
RepositoryUpdateStatus(table, job_id, status, started_at, finished_at, result_rc, error) ==
  IF job_id \in DOMAIN table
  THEN [table EXCEPT ![job_id] = RepositoryUpdateRow(@, status, started_at, finished_at, result_rc, error)]
  ELSE table

\* rows with status running whose started_at is older than the threshold
ListStaleRunningJobs(table, t) ==
  {j \in DOMAIN table :
     /\ table[j].status = RUNNING
     /\ table[j].started_at # None
     /\ TheValue(table[j].started_at) < t - StaleThreshold}

\* ---- provider policy (git_config.py) ----
GitProvider(type, host, orgs, credential_env) ==
  [type |-> type, host |-> host, orgs |-> orgs, credential_env |-> credential_env]

AzureIt == GitProvider("azure", "dev.azure.com", {"xxxit"}, "AZURE_PAT")

AzurePlatform == GitProvider("azure", "dev.azure.com", {"xxxplatform"}, "AZURE_PLATFORM_PAT")

GitLab == GitProvider("gitlab", "gitlab.company.com", {"platform-team"}, "GITLAB_TOKEN")

\* GIT_PROVIDERS of the deployment, as load_providers returns it
Providers == <<AzureIt, GitLab>>

\* os.environ of the service and of the worker; AZURE_PLATFORM_PAT is not set
Environ ==
  [k \in {"PATH", "AZURE_PAT", "GITLAB_TOKEN"} |->
     CASE k = "PATH" -> "/usr/bin"
       [] k = "AZURE_PAT" -> "azure-secret"
       [] k = "GITLAB_TOKEN" -> "gitlab-secret"]

\* os.environ.get(name): None when the variable is not set
EnvironGet(name) == IF name \in DOMAIN Environ THEN Some(Environ[name]) ELSE None

\* GitProvider.get_credential: ValueError when the variable is unset or empty
HasCredential(provider) ==
  EnvironGet(provider.credential_env) \notin {None, Some("")}

GetCredential(provider) == TheValue(EnvironGet(provider.credential_env))

ErrCredential(provider) ==
  "Credential environment variable '" \o provider.credential_env \o "' is not set"

\* repository URLs as urlparse splits them: scheme, hostname and the path's segments
Url(scheme, hostname, path) == [scheme |-> scheme, hostname |-> hostname, path |-> path]

\* the repo URLs of the submitted requests: one allowed, one for each rejection
RequestUrls ==
  {Url("https", "dev.azure.com", <<"xxxit", "p", "_git", "r">>),
   Url("http", "dev.azure.com", <<"xxxit", "p", "_git", "r">>),
   Url("https", "github.com", <<"evil", "repo.git">>),
   Url("https", "dev.azure.com", <<"other", "p", "_git", "r">>),
   Url("https", "dev.azure.com", <<"">>)}

Urls ==
  RequestUrls \cup
  {Url("https", "dev.azure.com", <<"", "xxxplatform", "p", "_git", "r">>),
   Url("https", "gitlab.company.com", <<"platform-team", "repo.git">>)}

NonEmpty(p) == p # ""

\* an extraction that takes the last segment of the path
ExtractOrgLast(url_path) ==
  LET parts == SelectSeq(url_path, NonEmpty)
  IN  IF parts = <<>> THEN None ELSE Some(parts[Len(parts)])

\* _extract_org: the first non-empty segment of the path, ValueError when there is none
ExtractOrg(url_path) ==
  LET parts == SelectSeq(url_path, NonEmpty)
  IN  IF parts = <<>> THEN None ELSE Some(parts[1])

\* validate_repo_url returns the matched provider
Returned(provider) == [ok |-> TRUE, error |-> "", provider |-> Some(provider)]

\* validate_repo_url raises ValueError(msg)
ValueError(msg) == [ok |-> FALSE, error |-> msg, provider |-> None]

ErrScheme == "Only HTTPS repository URLs are allowed"

ErrHost(host) == "Repository not allowed: host '" \o host \o "' is not configured"

ErrOrg(org, host) ==
  "Repository not allowed: org '" \o org \o "' is not in allowed list for " \o host

ErrNoOrg == "Cannot extract organization from URL path"

\* next((p for p in providers if p.host == host), None): the first provider of the host
MatchingProvider(providers, host) ==
  IF \A i \in 1..Len(providers) : providers[i].host # host
  THEN None
  ELSE Some(providers[CHOOSE i \in 1..Len(providers) :
                        /\ providers[i].host = host
                        /\ \A k \in 1..(i - 1) : providers[k].host # host])

\* a validation that lets any organization of a configured host pass
ValidateRepoUrlAnyOrg(url, providers) ==
  IF url.scheme # "https" THEN ValueError(ErrScheme)
  ELSE IF MatchingProvider(providers, url.hostname) = None
       THEN ValueError(ErrHost(url.hostname))
       ELSE Returned(TheValue(MatchingProvider(providers, url.hostname)))

\* validate_repo_url: https only, a configured host, an allowed organization
ValidateRepoUrl(url, providers) ==
  IF url.scheme # "https" THEN ValueError(ErrScheme)
  ELSE IF MatchingProvider(providers, url.hostname) = None
       THEN ValueError(ErrHost(url.hostname))
       ELSE LET provider == TheValue(MatchingProvider(providers, url.hostname))
                org == ExtractOrg(url.path)
            IN  IF org = None THEN ValueError(ErrNoOrg)
                ELSE IF TheValue(org) \notin provider.orgs
                     THEN ValueError(ErrOrg(TheValue(org), url.hostname))
                     ELSE Returned(provider)

\* ---- initial state: empty stores, every process idle ----
ApiIdle ==
  [pc |-> "idle", job |-> None, code |-> 0, detail |-> "", request |-> None, exc |-> None]

\* the handler has answered: 202 after the enqueue, 500 when an exception escaped
ApiAnswered(code) == [ApiIdle EXCEPT !.code = code]

\* an exception of create_job left the handler: the answer is 500
ApiRaised(msg) == [ApiAnswered(500) EXCEPT !.exc = Some(msg)]

\* calls, write_errors, raised and runner are the history of the current run:
\* the update_status calls issued, the store writes that raised, the exception
\* that reached the handler, and the run_playbook call
\* session counts the Session() and session.close() calls of the last run
NoSession == [opened |-> 0, closed |-> 0]

WorkerIdle ==
  [pc |-> "idle", job |-> None, site |-> "none", args |-> NoArgs, before |-> EmptyHash, exc |-> None,
   run |-> None, calls |-> <<>>, write_errors |-> {}, raised |-> None, runner |-> None,
   session |-> NoSession]

\* execute_job has ended with an exception, which rq records for the job
WorkerEscaped(msg) == [WorkerIdle EXCEPT !.exc = Some(msg)]

RecoveryIdle == [pc |-> "idle", stale |-> <<>>, exc |-> None]

\* a startup hook whose exception leaves lifespan: the application does not start
RecoveryFailedEscapes(msg) == [pc |-> "down", stale |-> <<>>, exc |-> Some(msg)]

\* recover_stale_jobs raised; lifespan swallows the exception and the service starts
RecoveryFailed(msg) == [RecoveryIdle EXCEPT !.exc = Some(msg)]

ClientInit ==
  [pc |-> "idle", job |-> 0, code |-> 0, data |-> EmptyHash, readDb |-> FALSE, row |-> None,
   storeError |-> FALSE, body |-> None, last |-> None, prev |-> None]

Init ==
  /\ now = 0
  /\ ticks = 0
  /\ redis = [k \in {} |-> EmptyHash]
  /\ expiry = [k \in {} |-> 0]
  /\ db = [j \in {} |-> 0]
  /\ queue = <<>>
  /\ nextId = 1
  /\ api = ApiIdle
  /\ worker = WorkerIdle
  /\ recovery = RecoveryIdle
  /\ client = ClientInit
  /\ crashed = {}
  /\ git_providers = Providers
  /\ resolved = None
  /\ children = {}

\* ---- POST /api/v1/jobs, async path: create_job then enqueue_job ----
TheJob == TheValue(api.job)

\* create_job builds the Job with a fresh uuid and the current time
SubmitJob(req) ==
  /\ api.pc = "idle"
  /\ nextId <= MaxJobs
  /\ api' = [ApiIdle EXCEPT !.pc = "save_hset",
                             !.job = Some(NewJob(nextId, req.playbook, req.extra_vars, req.inventory, now))]
  /\ nextId' = nextId + 1
  /\ UNCHANGED <<now, ticks, redis, expiry, db, queue, worker, recovery, client, crashed, git_providers, resolved, children>>

\* redis-py encodes str values; the dict of a structured inventory is a DataError
HSetAccepts(a) ==
  a.request = None \/ TheValue(a.request).req.inventory.class = "str"

ErrData == "Invalid input of type: 'dict'. Convert to a bytes, string, int or float first."

\* _save_job: redis.hset(key, mapping=data)
CreateJobHSet(ok) ==
  /\ api.pc = "save_hset"
  /\ IF ok /\ HSetAccepts(api)
     THEN /\ redis' = HSet(redis, JobKey(TheJob.job_id), SaveJobData(TheJob))
          /\ api' = [api EXCEPT !.pc = "save_expire"]
     ELSE /\ api' = ApiRaised(IF ok THEN ErrData ELSE ErrStore)
          /\ UNCHANGED redis
  /\ UNCHANGED <<now, ticks, expiry, db, queue, nextId, worker, recovery, client, crashed, git_providers, resolved, children>>

\* _save_job: redis.expire(key, self.ttl)
CreateJobExpire(ok) ==
  /\ api.pc = "save_expire"
  /\ IF ok
     THEN /\ expiry' = IF Exists(JobKey(TheJob.job_id))
                       THEN Put(expiry, JobKey(TheJob.job_id), now + TTL)
                       ELSE expiry
          /\ api' = [api EXCEPT !.pc = "db_create"]
     ELSE /\ api' = ApiRaised(ErrStore)
          /\ UNCHANGED expiry
  /\ UNCHANGED <<now, ticks, redis, db, queue, nextId, worker, recovery, client, crashed, git_providers, resolved, children>>

\* create_job: repository.create(...); an exception propagates to the caller
CreateJobDb(ok) ==
  /\ api.pc = "db_create"
  /\ IF ok
     THEN /\ db' = Put(db, TheJob.job_id,
                       RepositoryCreate(TheJob.job_id, TheJob.playbook, TheJob.extra_vars,
                                        TheJob.inventory, TheJob.created_at))
          /\ api' = [api EXCEPT !.pc = "enqueue"]
     ELSE /\ api' = ApiRaised(ErrStore)
          /\ UNCHANGED db
  /\ UNCHANGED <<now, ticks, redis, expiry, queue, nextId, worker, recovery, client, crashed, git_providers, resolved, children>>

\* a descriptor that carries another job id than the caller's
DescriptorOtherId(job_id, playbook, extra_vars, inventory, source_config, options) ==
  [job_id |-> job_id + 1, playbook |-> playbook, extra_vars |-> extra_vars,
   inventory |-> inventory, source_config |-> source_config, options |-> options]

\* the kwargs enqueue_job hands to rq
Descriptor(job_id, playbook, extra_vars, inventory, source_config, options) ==
  [job_id |-> job_id, playbook |-> playbook, extra_vars |-> extra_vars,
   inventory |-> inventory, source_config |-> source_config, options |-> options]

\* a queue.enqueue call that passes the descriptor's keys as its own keyword arguments
EnqueueKwargsExpanded(descriptor) == descriptor

\* the keyword arguments of the queue.enqueue call: the descriptor nested under kwargs=
EnqueueKwargs(descriptor) == [kwargs |-> descriptor]

\* keyword arguments that rq's Queue.enqueue keeps for itself
RqReserved ==
  {"job_id", "job_timeout", "timeout", "result_ttl", "ttl", "failure_ttl", "description",
   "depends_on", "at_front", "meta", "retry", "on_success", "on_failure"}

\* the kwargs rq calls the job function with: the nested kwargs= mapping when
\* there is one, otherwise what is left after rq has taken its reserved keys
RqJobKwargs(call) ==
  IF "kwargs" \in DOMAIN call
  THEN call.kwargs
  ELSE [k \in (DOMAIN call) \ RqReserved |-> call[k]]

\* enqueue_job(job_id, playbook, extra_vars, inventory, source_config, options)
Enqueued(q, job_id, playbook, extra_vars, inventory, source_config, options) ==
  Append(q, RqJobKwargs(EnqueueKwargs(
              Descriptor(job_id, playbook, extra_vars, inventory, source_config, options))))

\* enqueue_job with source_config and options left at None, then the 202 answer
EnqueueJob(ok) ==
  /\ api.pc = "enqueue"
  /\ api.request = None
  /\ queue' = IF ok
              THEN Enqueued(queue, TheJob.job_id, TheJob.playbook, TheJob.extra_vars,
                            TheJob.inventory, None, None)
              ELSE queue
  /\ api' = ApiAnswered(IF ok THEN 202 ELSE 500)
  /\ UNCHANGED <<now, ticks, redis, expiry, db, nextId, worker, recovery, client, crashed, git_providers, resolved, children>>

\* ---- execute_job (worker.py), run by the rq worker ----
\* the exception handler of execute_job: update_status(FAILED, finished_at, error=str(e))
HandlerCall(w, msg, t, hash) ==
  [w EXCEPT !.pc = "update_redis", !.site = "handler", !.before = hash,
            !.args = UpdateArgs(w.args.job_id, FAILED, None, Some(t), None, Some(msg)),
            !.calls = Append(@, UpdateArgs(w.args.job_id, FAILED, None, Some(t), None, Some(msg)))]

\* source dispatch, materialization or the runner raises: except Exception as e
Raise(w, msg, t, hash) == [HandlerCall(w, msg, t, hash) EXCEPT !.raised = Some(msg)]

\* session = Session(), before the outer try
SessionOpen == [opened |-> 1, closed |-> 0]

\* finally: session.close(), on the way out of the outer try
Finally(w, end) ==
  [end EXCEPT !.session = [opened |-> w.session.opened, closed |-> w.session.closed + 1]]

\* an exception of the first update_status call that leaves execute_job past the finally
RaiseInUpdateSkipsFinally(w, msg, t, hash) ==
  IF w.site = "terminal" THEN HandlerCall(w, msg, t, hash)
  ELSE IF w.site = "running" THEN [WorkerEscaped(msg) EXCEPT !.session = w.session]
  ELSE Finally(w, WorkerEscaped(msg))

\* an exception raised at one of the three update_status call sites: the first
\* call is outside the inner try, the terminal call is inside it, and an
\* exception of the handler's own call leaves execute_job
RaiseInUpdate(w, msg, t, hash) ==
  IF w.site = "terminal" THEN HandlerCall(w, msg, t, hash) ELSE Finally(w, WorkerEscaped(msg))

\* a normal return of update_status at one of the three call sites
ReturnFromUpdate(w) ==
  IF w.site = "running" THEN [w EXCEPT !.pc = "execute"] ELSE Finally(w, WorkerIdle)

\* rq hands the head descriptor to execute_job, which first marks the job running
Dequeue ==
  /\ worker.pc = "idle"
  /\ queue # <<>>
  /\ worker' = [pc |-> "update_redis", job |-> Some(Head(queue)), site |-> "running",
                args |-> UpdateArgs(Head(queue).job_id, RUNNING, Some(now), None, None, None),
                before |-> HGetAll(JobKey(Head(queue).job_id)), exc |-> None, run |-> None,
                calls |-> <<UpdateArgs(Head(queue).job_id, RUNNING, Some(now), None, None, None)>>,
                write_errors |-> {}, raised |-> None, runner |-> None, session |-> SessionOpen]
  /\ queue' = Tail(queue)
  /\ UNCHANGED <<now, ticks, redis, expiry, db, nextId, api, recovery, client, crashed, git_providers, resolved, children>>

\* update_status: redis.hset(key, mapping=updates)
UpdateStatusRedis(ok) ==
  /\ worker.pc = "update_redis"
  /\ IF ok
     THEN /\ redis' = HSet(redis, JobKey(worker.args.job_id), UpdatesMapping(worker.args))
          /\ worker' = [worker EXCEPT !.pc = "update_db"]
     ELSE /\ worker' = RaiseInUpdate([worker EXCEPT !.write_errors = @ \cup {<<worker.site, "redis">>}],
                                      ErrStore, now, HGetAll(JobKey(worker.args.job_id)))
          /\ UNCHANGED redis
  /\ UNCHANGED <<now, ticks, expiry, db, queue, nextId, api, recovery, client, crashed, git_providers, resolved, children>>

\* update_status: repository.update_status(...)
UpdateStatusDb(ok) ==
  /\ worker.pc = "update_db"
  /\ IF ok
     THEN /\ db' = RepositoryUpdateStatus(db, worker.args.job_id, worker.args.status,
                       worker.args.started_at, worker.args.finished_at,
                       IF worker.args.result # None THEN Some(TheValue(worker.args.result).rc) ELSE None,
                       worker.args.error)
          /\ worker' = ReturnFromUpdate(worker)
     ELSE /\ worker' = RaiseInUpdate([worker EXCEPT !.write_errors = @ \cup {<<worker.site, "db">>}],
                                      ErrStore, now, HGetAll(JobKey(worker.args.job_id)))
          /\ UNCHANGED db
  /\ UNCHANGED <<now, ticks, redis, expiry, queue, nextId, api, recovery, client, crashed, git_providers, resolved, children>>

\* a terminal call that reports every run as successful
TerminalCallAlwaysSuccessful(w, rc, t, hash) ==
  [w EXCEPT !.pc = "update_redis", !.site = "terminal", !.before = hash,
            !.args = UpdateArgs(w.args.job_id, SUCCESSFUL, None, Some(t), Some([rc |-> rc]), None),
            !.calls = Append(@, UpdateArgs(w.args.job_id, SUCCESSFUL, None, Some(t),
                                           Some([rc |-> rc]), None))]

\* the terminal update_status call after the runner has returned rc
TerminalCall(w, rc, t, hash) ==
  [w EXCEPT !.pc = "update_redis", !.site = "terminal", !.before = hash,
            !.args = UpdateArgs(w.args.job_id, IF rc = 0 THEN SUCCESSFUL ELSE FAILED,
                                None, Some(t), Some([rc |-> rc]), None),
            !.calls = Append(@, UpdateArgs(w.args.job_id, IF rc = 0 THEN SUCCESSFUL ELSE FAILED,
                                           None, Some(t), Some([rc |-> rc]), None))]

\* the keyword arguments of one run_playbook call; envvars and options default to None
RunPlaybook(playbook, extra_vars, inventory, playbooks_dir, envvars, options) ==
  [playbook |-> playbook, extra_vars |-> extra_vars, inventory |-> inventory,
   playbooks_dir |-> playbooks_dir, envvars |-> envvars, options |-> options]

\* get_playbooks_dir()
PlaybooksPath == "playbooks"

\* _execute_local(playbook, extra_vars, inventory): the arguments go to the runner as they are
ExecuteLocal(job) ==
  RunPlaybook(job.playbook, job.extra_vars, job.inventory, Some(PlaybooksPath), None, None)

\* source_config is None: _execute_local, the runner returns with a return code
ExecuteReturns(rc) ==
  /\ worker.pc = "execute"
  /\ TheValue(worker.job).source_config = None
  /\ worker' = [TerminalCall(worker, rc, now, HGetAll(JobKey(worker.args.job_id)))
                  EXCEPT !.runner = Some(ExecuteLocal(TheValue(worker.job)))]
  /\ UNCHANGED <<now, ticks, redis, expiry, db, queue, nextId, api, recovery, client, crashed, git_providers, resolved, children>>

\* source_config is None: _execute_local, the runner raises
ExecuteRaises ==
  /\ worker.pc = "execute"
  /\ TheValue(worker.job).source_config = None
  /\ worker' = [Raise(worker, ErrExec, now, HGetAll(JobKey(worker.args.job_id)))
                  EXCEPT !.runner = Some(ExecuteLocal(TheValue(worker.job)))]
  /\ UNCHANGED <<now, ticks, redis, expiry, db, queue, nextId, api, recovery, client, crashed, git_providers, resolved, children>>

\* the worker process dies in the middle of a job
WorkerCrash ==
  /\ worker.pc # "idle"
  /\ worker' = [WorkerIdle EXCEPT !.session = worker.session]
  /\ crashed' = crashed \cup {worker.args.job_id}
  /\ UNCHANGED <<now, ticks, redis, expiry, db, queue, nextId, api, recovery, client, git_providers, resolved, children>>

\* ---- startup: lifespan runs recover_stale_jobs (main.py) ----
RECURSIVE SetToSeq(_)
SetToSeq(S) ==
  IF S = {} THEN <<>>
  ELSE LET m == CHOOSE x \in S : \A y \in S : x <= y
       IN  <<m>> \o SetToSeq(S \ {m})

\* a scan that takes a stale job for abandoned whether or not its key exists
TrulyAbandonedNever(key_exists) == FALSE

\* a scan that takes every stale job for abandoned, its key existing or not
TrulyAbandonedAlways(key_exists) == TRUE

\* only mark as failed if not in Redis (truly abandoned)
TrulyAbandoned(key_exists) == ~key_exists

\* a recovery update that records another error text
RecoverJobOtherError(table, job_id) ==
  RepositoryUpdateStatus(table, job_id, FAILED, None, None, None, Some("Job timed out"))

\* a recovery update that leaves the job running
RecoverJobKeepsRunning(table, job_id) ==
  RepositoryUpdateStatus(table, job_id, RUNNING, None, None, None, Some(ErrRecovery))

\* repository.update_status(job.id, "failed", error="Worker crashed or timed out")
RecoverJob(table, job_id) ==
  RepositoryUpdateStatus(table, job_id, FAILED, None, None, None, Some(ErrRecovery))

\* the loop of recover_stale_jobs moves on to the next job, or ends
NextStale(r) ==
  IF Len(r.stale) > 1 THEN [r EXCEPT !.pc = "exists", !.stale = Tail(r.stale)] ELSE RecoveryIdle

\* lifespan: engine, session factory and session, then recover_stale_jobs
Startup(ok) ==
  /\ recovery.pc = "idle"
  /\ recovery' = IF ok THEN [pc |-> "scan", stale |-> <<>>, exc |-> None]
                 ELSE RecoveryFailed(ErrStore)
  /\ UNCHANGED <<now, ticks, redis, expiry, db, queue, nextId, api, worker, client, crashed, git_providers, resolved, children>>

\* stale_jobs = repository.list_stale_running_jobs(); an exception ends recovery
RecoveryScan(ok) ==
  /\ recovery.pc = "scan"
  /\ recovery' = IF ~ok THEN RecoveryFailed(ErrStore)
                 ELSE IF ListStaleRunningJobs(db, now) # {}
                      THEN [recovery EXCEPT !.pc = "exists",
                                            !.stale = SetToSeq(ListStaleRunningJobs(db, now))]
                      ELSE RecoveryIdle
  /\ UNCHANGED <<now, ticks, redis, expiry, db, queue, nextId, api, worker, client, crashed, git_providers, resolved, children>>

\* if not redis.exists(f"job:{job.id}")
RecoveryExists(ok) ==
  /\ recovery.pc = "exists"
  /\ recovery' = IF ~ok THEN RecoveryFailed(ErrStore)
                 ELSE IF TrulyAbandoned(Exists(JobKey(Head(recovery.stale))))
                      THEN [recovery EXCEPT !.pc = "update"]
                      ELSE NextStale(recovery)
  /\ UNCHANGED <<now, ticks, redis, expiry, db, queue, nextId, api, worker, client, crashed, git_providers, resolved, children>>

\* repository.update_status(job.id, "failed", error="Worker crashed or timed out")
RecoveryUpdate(ok) ==
  /\ recovery.pc = "update"
  /\ IF ok
     THEN /\ db' = RecoverJob(db, Head(recovery.stale))
          /\ recovery' = NextStale(recovery)
     ELSE /\ recovery' = RecoveryFailed(ErrStore)
          /\ UNCHANGED db
  /\ UNCHANGED <<now, ticks, redis, expiry, queue, nextId, api, worker, client, crashed, git_providers, resolved, children>>

\* ---- GET /api/v1/jobs/{job_id} (main.py get_job) ----
\* the JobDetail built from the Job that JobStore.get_job returned
JobDetailOfJob(job) ==
  [job_id |-> job.job_id, status |-> job.status, playbook |-> job.playbook,
   created_at |-> IsoFormat(job.created_at),
   started_at |-> IF job.started_at # None THEN Some(IsoFormat(TheValue(job.started_at))) ELSE None,
   finished_at |-> IF job.finished_at # None THEN Some(IsoFormat(TheValue(job.finished_at))) ELSE None,
   result |-> job.result, error |-> job.error]

\* the JobDetail built from the row that repository.get returned
JobDetailOfRow(row) ==
  [job_id |-> ToString(row.id), status |-> row.status, playbook |-> row.playbook,
   created_at |-> IsoFormat(row.created_at),
   started_at |-> IF row.started_at # None THEN Some(IsoFormat(TheValue(row.started_at))) ELSE None,
   finished_at |-> IF row.finished_at # None THEN Some(IsoFormat(TheValue(row.finished_at))) ELSE None,
   result |-> IF row.result_rc # None THEN Some([rc |-> TheValue(row.result_rc)]) ELSE None,
   error |-> row.error]

\* the client's state after an answer; a 200 answer is remembered as the last status
Respond(c, code, body) ==
  [c EXCEPT !.pc = "idle", !.code = code, !.body = body,
            !.prev = IF code = 200 THEN c.last ELSE @,
            !.last = IF code = 200 THEN Some(TheValue(body).status) ELSE @]

\* job_store.get_job(job_id): HGETALL, then _deserialize_job when the hash is not empty
GetJob(job_id, ok) ==
  /\ client.pc = "idle"
  /\ client.job \in {0, job_id}
  /\ LET c == [client EXCEPT !.job = job_id, !.readDb = FALSE, !.row = None, !.storeError = ~ok,
                              !.data = IF ok THEN HGetAll(JobKey(job_id)) ELSE EmptyHash]
     IN  client' = IF ~ok THEN Respond(c, 500, None)
                   ELSE IF c.data = EmptyHash THEN [c EXCEPT !.pc = "db", !.code = 0, !.body = None]
                   ELSE IF CanDeserialize(c.data)
                        THEN Respond(c, 200, Some(JobDetailOfJob(DeserializeJob(c.data))))
                        ELSE Respond(c, 500, None)
  /\ UNCHANGED <<now, ticks, redis, expiry, db, queue, nextId, api, worker, recovery, crashed, git_providers, resolved, children>>

\* the fallback: repository.get(job_id), 404 when there is no row
GetJobDb(ok) ==
  /\ client.pc = "db"
  /\ LET c == [client EXCEPT !.readDb = TRUE, !.storeError = ~ok,
                              !.row = IF ok /\ client.job \in DOMAIN db THEN Some(db[client.job]) ELSE None]
     IN  client' = IF ~ok THEN Respond(c, 500, None)
                   ELSE IF client.job \in DOMAIN db
                        THEN Respond(c, 200, Some(JobDetailOfRow(db[client.job])))
                        ELSE Respond(c, 404, None)
  /\ UNCHANGED <<now, ticks, redis, expiry, db, queue, nextId, api, worker, recovery, crashed, git_providers, resolved, children>>

\* ---- time ----
\* store commands take no time on this clock; a playbook run may take long
Quiescent ==
  /\ api.pc = "idle"
  /\ worker.pc \in {"idle", "execute"}
  /\ recovery.pc = "idle"
  /\ client.pc = "idle"

Live(t, key) == key \notin DOMAIN expiry \/ expiry[key] > t

\* the clock advances; Redis drops the keys whose TTL has run out
Tick(d) ==
  /\ Quiescent
  /\ ticks < MaxTicks
  /\ ticks' = ticks + 1
  /\ now' = now + d
  /\ redis' = [k \in {x \in DOMAIN redis : Live(now + d, x)} |-> redis[k]]
  /\ expiry' = [k \in {x \in DOMAIN expiry : Live(now + d, x)} |-> expiry[k]]
  /\ UNCHANGED <<db, queue, nextId, api, worker, recovery, client, crashed, git_providers, resolved, children>>

Next ==
  \/ \E req \in Requests : SubmitJob(req)
  \/ \E ok \in BOOLEAN : CreateJobHSet(ok)
  \/ \E ok \in BOOLEAN : CreateJobExpire(ok)
  \/ \E ok \in BOOLEAN : CreateJobDb(ok)
  \/ \E ok \in BOOLEAN : EnqueueJob(ok)
  \/ Dequeue
  \/ \E ok \in BOOLEAN : UpdateStatusRedis(ok)
  \/ \E ok \in BOOLEAN : UpdateStatusDb(ok)
  \/ \E rc \in ReturnCodes : ExecuteReturns(rc)
  \/ ExecuteRaises
  \/ WorkerCrash
  \/ \E ok \in BOOLEAN : Startup(ok)
  \/ \E ok \in BOOLEAN : RecoveryScan(ok)
  \/ \E ok \in BOOLEAN : RecoveryExists(ok)
  \/ \E ok \in BOOLEAN : RecoveryUpdate(ok)
  \/ \E d \in TickSteps : Tick(d)

Spec == Init /\ [][Next]_vars

\* the same system observed by a client that polls one job
NextRead ==
  \/ Next
  \/ \E j \in JobIds, ok \in BOOLEAN : GetJob(j, ok)
  \/ \E ok \in BOOLEAN : GetJobDb(ok)

SpecRead == Init /\ [][NextRead]_vars

\* ---- POST /api/v1/jobs: the whole handler submit_job (main.py) ----
\* the four source models of schemas.py
LocalPlaybookSource(path) == [type |-> "local", target |-> "playbook", path |-> path]

LocalRoleSource(collection, role) ==
  [type |-> "local", target |-> "role", collection |-> collection, role |-> role, role_vars |-> {}]

GitPlaybookSource(repo, branch, path) ==
  [type |-> "git", target |-> "playbook", repo |-> repo, branch |-> branch, path |-> path]

GitRoleSource(repo, branch, role) ==
  [type |-> "git", target |-> "role", repo |-> repo, branch |-> branch, role |-> role, role_vars |-> {}]

\* request.inventory: a str, or a GitInventory model
StrInventory(value) == [class |-> "str", value |-> value]

GitInventory(repo, branch, path) ==
  [class |-> "GitInventory", type |-> "git", repo |-> repo, branch |-> branch, path |-> path]

InlineInventory(data) == [class |-> "InlineInventory", type |-> "inline", data |-> data]

\* ExecutionOptions, two of its fields
DefaultOptions == [check |-> FALSE, diff |-> FALSE]

\* request.options.model_dump(exclude_defaults=True) or None
OptionsDump(options) ==
  LET dump == {<<k, options[k]>> : k \in {f \in DOMAIN options : options[f] # DefaultOptions[f]}}
  IN  IF dump = {} THEN None ELSE Some(dump)

\* the playbooks that exist under the playbooks directory
PlaybooksDir == {"hello.yml", "deploy/app.yml"}

Sources ==
  {LocalPlaybookSource("hello.yml"), LocalPlaybookSource("nonexistent.yml"),
   LocalRoleSource("mycompany.infra", "nginx"),
   GitRoleSource(Url("https", "dev.azure.com", <<"xxxit", "p", "_git", "r">>), "main", "nginx")}
  \cup {GitPlaybookSource(u, "main", "deploy.yml") : u \in RequestUrls}

Inventories ==
  {StrInventory("localhost,"),
   GitInventory(Url("https", "dev.azure.com", <<"xxxit", "p", "_git", "inv">>), "main", "hosts.yml")}

\* the validated JobRequest bodies
JobRequests ==
  [source : Sources, extra_vars : {{<<"name", "World">>}}, inventory : Inventories,
   options : {DefaultOptions, [check |-> TRUE, diff |-> FALSE]}]
  \cup [source : {LocalPlaybookSource("hello.yml")}, extra_vars : {{<<"name", "World">>}},
        inventory : {InlineInventory({<<"webservers", "10.0.1.10">>})},
        options : {DefaultOptions}]

\* _build_source_config: the TypedDict put on the queue
BuildSourceConfig(source) ==
  IF source.type = "local" /\ source.target = "playbook"
  THEN [type |-> "local", target |-> "playbook", path |-> source.path]
  ELSE IF source.type = "local"
  THEN [type |-> "local", target |-> "role", collection |-> source.collection,
        role |-> source.role, role_vars |-> source.role_vars]
  ELSE IF source.target = "playbook"
  THEN [type |-> "git", target |-> "playbook", repo |-> source.repo,
        branch |-> source.branch, path |-> source.path]
  ELSE [type |-> "git", target |-> "role", repo |-> source.repo, branch |-> source.branch,
        role |-> source.role, role_vars |-> source.role_vars]

\* the playbook name stored for the job
PlaybookName(source) == IF source.target = "playbook" THEN source.path ELSE source.role

\* the inventory handed on: the string, or the model_dump of the structured inventory
InventoryDump(inventory) ==
  IF inventory.class = "str" THEN inventory.value
  ELSE IF inventory.class = "InlineInventory"
  THEN [type |-> inventory.type, data |-> inventory.data]
  ELSE [type |-> inventory.type, repo |-> inventory.repo, branch |-> inventory.branch,
        path |-> inventory.path]

HttpError(code, detail) == [code |-> code, detail |-> detail]

NoError == HttpError(0, "")

\* a sync check that lets a Git inventory through
SyncConstraintsSourceOnly(source, inventory, sync) ==
  IF sync /\ source.type = "git"
  THEN HttpError(400, "Sync mode not supported for git sources. Use async mode.")
  ELSE NoError

\* the sync mode constraints at the top of submit_job
SyncConstraints(source, inventory, sync) ==
  IF sync /\ source.type = "git"
  THEN HttpError(400, "Sync mode not supported for git sources. Use async mode.")
  ELSE IF sync /\ inventory.class = "GitInventory"
       THEN HttpError(400, "Sync mode does not support git inventory. Use async mode.")
       ELSE NoError

\* the provider policy check of submit_job: a ValueError becomes a 400
GitPolicy(source) ==
  IF source.type = "git" /\ ~ValidateRepoUrl(source.repo, git_providers).ok
  THEN HttpError(400, ValidateRepoUrl(source.repo, git_providers).error)
  ELSE NoError

\* the checks _execute_sync makes before it invokes the runner
SyncChecks(source) ==
  IF source.type = "local" /\ source.target = "playbook" /\ source.path \notin PlaybooksDir
  THEN HttpError(404, "Playbook not found: " \o source.path)
  ELSE NoError

\* the HTTPException submit_job raises for the request before it creates or runs
\* anything, NoError when it raises none
Rejection(req, sync) ==
  IF SyncConstraints(req.source, req.inventory, sync) # NoError
  THEN SyncConstraints(req.source, req.inventory, sync)
  ELSE IF GitPolicy(req.source) # NoError THEN GitPolicy(req.source)
  ELSE IF sync THEN SyncChecks(req.source)
  ELSE NoError

\* the handler's answer to the submission x = [req, sync]
Answer(x, code, detail) ==
  [ApiAnswered(code) EXCEPT !.detail = detail, !.request = Some(x)]

TheRequest == TheValue(api.request).req

\* submit_job up to its first effect: an HTTPException, the call of _execute_sync,
\* or the Job that create_job builds for an async submission
SubmitRequest(req, sync) ==
  /\ api.pc = "idle"
  /\ LET x == [req |-> req, sync |-> sync]
         rejection == Rejection(req, sync)
     IN  IF rejection # NoError
         THEN /\ api' = Answer(x, rejection.code, rejection.detail)
              /\ UNCHANGED nextId
         ELSE IF sync
         THEN /\ api' = [ApiIdle EXCEPT !.pc = "sync_run", !.request = Some(x)]
              /\ UNCHANGED nextId
         ELSE /\ nextId <= MaxJobs
              /\ api' = [ApiIdle EXCEPT !.pc = "save_hset", !.request = Some(x),
                                        !.job = Some(NewJob(nextId, PlaybookName(req.source),
                                                            req.extra_vars,
                                                            InventoryDump(req.inventory), now))]
              /\ nextId' = nextId + 1
  /\ UNCHANGED <<now, ticks, redis, expiry, db, queue, worker, recovery, client, crashed, git_providers, resolved, children>>

\* a sync run that records itself as a job in the table
SyncReturnsRecordsJob(rc) ==
  /\ api.pc = "sync_run"
  /\ api' = Answer(TheValue(api.request), 200, "")
  /\ db' = Put(db, nextId, RepositoryCreate(nextId, PlaybookName(TheRequest.source),
                                           TheRequest.extra_vars, "localhost,", now))
  /\ UNCHANGED <<now, ticks, redis, expiry, queue, nextId, worker, recovery, client, crashed, git_providers, resolved, children>>

\* _execute_sync: run_playbook returns, the answer is 200 with the result
SyncReturns(rc) ==
  /\ api.pc = "sync_run"
  /\ api' = Answer(TheValue(api.request), 200, "")
  /\ UNCHANGED <<now, ticks, redis, expiry, db, queue, nextId, worker, recovery, client, crashed, git_providers, resolved, children>>

\* _execute_sync: run_playbook raises, the answer is 500
SyncRaises ==
  /\ api.pc = "sync_run"
  /\ api' = Answer(TheValue(api.request), 500, "")
  /\ UNCHANGED <<now, ticks, redis, expiry, db, queue, nextId, worker, recovery, client, crashed, git_providers, resolved, children>>

\* enqueue_job(job.job_id, playbook_name, extra_vars, inventory, source_config,
\* options), then the 202 answer
EnqueueRequest(ok) ==
  /\ api.pc = "enqueue"
  /\ api.request # None
  /\ queue' = IF ok
              THEN Enqueued(queue, TheJob.job_id, PlaybookName(TheRequest.source),
                            TheRequest.extra_vars, InventoryDump(TheRequest.inventory),
                            Some(BuildSourceConfig(TheRequest.source)),
                            OptionsDump(TheRequest.options))
              ELSE queue
  /\ api' = Answer(TheValue(api.request), IF ok THEN 202 ELSE 500, "")
  /\ UNCHANGED <<now, ticks, redis, expiry, db, nextId, worker, recovery, client, crashed, git_providers, resolved, children>>

NextIntake ==
  \/ \E req \in JobRequests, sync \in BOOLEAN : SubmitRequest(req, sync)
  \/ \E ok \in BOOLEAN : CreateJobHSet(ok)
  \/ \E ok \in BOOLEAN : CreateJobExpire(ok)
  \/ \E ok \in BOOLEAN : CreateJobDb(ok)
  \/ \E ok \in BOOLEAN : EnqueueRequest(ok)
  \/ \E rc \in ReturnCodes : SyncReturns(rc)
  \/ SyncRaises

\* the handler of POST /api/v1/jobs with the two-tier store and the queue
SpecIntake == Init /\ [][NextIntake]_vars

\* ---- the git-playbook path of the worker: _execute_git_playbook (worker.py) ----
\* absolute paths are sequences of segments; tmpdir of TemporaryDirectory and repo_dir
TmpDir == <<"tmp", "job">>

RepoDir == TmpDir \o <<"repo">>

\* source_config["path"]: absolute or not, and its segments
RelPath(segs) == [abs |-> FALSE, segs |-> segs]

AbsPath(segs) == [abs |-> TRUE, segs |-> segs]

\* os.path.join(repo_dir, path): an absolute path replaces repo_dir
JoinPath(repo_dir, path) == IF path.abs THEN path.segs ELSE repo_dir \o path.segs

\* the symbolic links of a file system: pairs <<link, target>> of absolute paths
IsLink(links, p) == \E l \in links : l[1] = p

LinkTarget(links, p) == (CHOOSE l \in links : l[1] = p)[2]

\* Path.resolve(): segment by segment, '..' drops the last resolved segment and
\* a symbolic link is replaced by its target
RECURSIVE Walk(_, _, _)
Walk(links, done, rest) ==
  IF rest = <<>> THEN done
  ELSE IF Head(rest) \in {"", "."} THEN Walk(links, done, Tail(rest))
  ELSE IF Head(rest) = ".."
       THEN Walk(links, IF done = <<>> THEN <<>> ELSE SubSeq(done, 1, Len(done) - 1), Tail(rest))
       ELSE IF IsLink(links, Append(done, Head(rest)))
            THEN Walk(links, <<>>, LinkTarget(links, Append(done, Head(rest))) \o Tail(rest))
            ELSE Walk(links, Append(done, Head(rest)), Tail(rest))

Resolve(links, path) == Walk(links, <<>>, path)

\* PurePath.is_relative_to: root is a prefix of p, segment by segment
IsRelativeTo(p, root) == Len(p) >= Len(root) /\ SubSeq(p, 1, Len(root)) = root

\* a check that normalizes the path without following symbolic links
PathInsideRepoLexical(links, playbook_path, repo_dir) ==
  IsRelativeTo(Resolve({}, playbook_path), Resolve({}, repo_dir))

\* resolved.is_relative_to(repo_root)
PathInsideRepo(links, playbook_path, repo_dir) ==
  IsRelativeTo(Resolve(links, playbook_path), Resolve(links, repo_dir))

ErrOutsideRepo == "Playbook path resolves outside repo directory"

\* what clone_repo can leave on disk: no link, a link out of the repo, a link
\* inside the repo, and a temp directory that is itself behind a link
FileSystems ==
  {{},
   {<<RepoDir \o <<"escape">>, <<"tmp", "secret">>>>},
   {<<RepoDir \o <<"inside">>, RepoDir \o <<"deploy">>>>},
   {<<(<<"tmp">>), <<"private", "tmp">>>>, <<RepoDir \o <<"escape">>, <<"private", "tmp", "secret">>>>}}

RepoPaths ==
  {RelPath(<<"deploy.yml">>), RelPath(<<"escape", "playbook.yml">>),
   RelPath(<<"inside", "site.yml">>), RelPath(<<"deploy", "..", "site.yml">>),
   RelPath(<<"deploy", "..", "..", "etc_shadow">>), AbsPath(<<"etc", "passwd">>)}

\* PlaybookSourceConfig descriptors as execute_job takes them
PlaybookSourceConfigs ==
  {[type |-> "playbook", repo |-> Url("https", "dev.azure.com", <<"xxxit", "p", "_git", "r">>),
    branch |-> "main", path |-> p] : p \in RepoPaths}
  \cup {[type |-> "playbook", repo |-> Url("https", "github.com", <<"evil", "repo.git">>),
         branch |-> "main", path |-> RelPath(<<"deploy.yml">>)],
        [type |-> "playbook", repo |-> Url("https", "gitlab.company.com", <<"platform-team", "repo.git">>),
         branch |-> "main", path |-> RelPath(<<"deploy.yml">>)]}

\* enqueue_job with a source_config, then the 202 answer
EnqueueSource(source_config, ok) ==
  /\ api.pc = "enqueue"
  /\ api.request = None
  /\ queue' = IF ok
              THEN Enqueued(queue, TheJob.job_id, TheJob.playbook, TheJob.extra_vars,
                            TheJob.inventory, Some(source_config), None)
              ELSE queue
  /\ api' = ApiAnswered(IF ok THEN 202 ELSE 500)
  /\ UNCHANGED <<now, ticks, redis, expiry, db, nextId, worker, recovery, client, crashed, git_providers, resolved, children>>

TheSourceConfig == TheValue(TheValue(worker.job).source_config)

IsGitPlaybook(w) ==
  /\ w.job # None
  /\ TheValue(w.job).source_config # None
  /\ TheValue(TheValue(w.job).source_config).type = "playbook"

\* ---- child processes of git_service.py ----
\* a string of the argument vector is the sequence of the pieces it is put
\* together from; it contains s when s is one of the pieces
Contains(arg, s) == \E i \in 1..Len(arg) : arg[i] = s

RECURSIVE PathPieces(_)
PathPieces(segs) ==
  IF segs = <<>> THEN <<>> ELSE <<"/", Head(segs)>> \o PathPieces(Tail(segs))

\* the user name that goes with a provider type; any other type is a ValueError
KnownProviderType(provider) == provider.type \in {"azure", "gitlab"}

Username(provider) == IF provider.type = "azure" THEN "pat" ELSE "oauth2"

ErrProviderType(provider) == "Unknown provider type: " \o provider.type

\* a URL that carries the credential as the password of its user
BuildUsernameUrlWithPassword(repo_url, provider) ==
  <<repo_url.scheme, "://", Username(provider), ":", GetCredential(provider), "@", repo_url.hostname>>
    \o PathPieces(repo_url.path)

\* _build_username_url: scheme://username@hostname/path, without any credential
BuildUsernameUrl(repo_url, provider) ==
  <<repo_url.scheme, "://", Username(provider), "@", repo_url.hostname>> \o PathPieces(repo_url.path)

\* _create_askpass_script: the script in a temp directory of its own
AskpassPath == "/tmp/askpass/askpass.sh"

\* _subprocess_env: os.environ and the three variables of the side channel
SubprocessEnv(askpass_path, credential) ==
  [k \in (DOMAIN Environ) \cup {"GIT_ASKPASS", "GIT_TERMINAL_PROMPT", "_GIT_CREDENTIAL"} |->
     CASE k = "GIT_ASKPASS" -> askpass_path
       [] k = "GIT_TERMINAL_PROMPT" -> "0"
       [] k = "_GIT_CREDENTIAL" -> credential
       [] OTHER -> Environ[k]]

\* one subprocess.run(cmd, env=env) call, for the repository it was made for
Child(cmd, env, repo_url) == [argv |-> cmd, env |-> env, repo |-> repo_url]

\* the child that clone_repo starts
CloneChild(repo_url, branch, target_dir, provider) ==
  Child(<< <<"git">>, <<"clone">>, <<"--depth">>, <<"1">>, <<"--branch">>, <<branch>>,
           <<"--single-branch">>, BuildUsernameUrl(repo_url, provider), PathPieces(target_dir) >>,
        SubprocessEnv(AskpassPath, GetCredential(provider)), repo_url)

\* the child that install_collection starts
InstallChild(repo_url, branch, collections_dir, provider) ==
  Child(<< <<"ansible-galaxy">>, <<"collection">>, <<"install">>,
           <<"git+">> \o BuildUsernameUrl(repo_url, provider) \o <<",", branch>>,
           <<"-p">>, PathPieces(collections_dir) >>,
        SubprocessEnv(AskpassPath, GetCredential(provider)), repo_url)

\* the exception that ends provider resolution, credential lookup or the URL
\* building before any child is started; None when a child is started
BeforeChild(repo_url) ==
  LET outcome == ValidateRepoUrl(repo_url, git_providers)
  IN  IF ~outcome.ok THEN Some(outcome.error)
      ELSE IF ~HasCredential(TheValue(outcome.provider))
           THEN Some(ErrCredential(TheValue(outcome.provider)))
           ELSE IF ~KnownProviderType(TheValue(outcome.provider))
                THEN Some(ErrProviderType(TheValue(outcome.provider)))
                ELSE None

\* provider = validate_repo_url(source_config["repo"], providers)
TheProvider(repo_url) == TheValue(ValidateRepoUrl(repo_url, git_providers).provider)

ErrClone == "Git clone failed: fatal: repository not found"

ErrInstall == "Collection install failed: ERROR! - could not clone"

\* validate_repo_url and clone_repo: either raises, or the clone is on disk and
\* playbook_path is joined
GitClone(links, ok) ==
  /\ worker.pc = "execute"
  /\ IsGitPlaybook(worker)
  /\ IF BeforeChild(TheSourceConfig.repo) # None
     THEN /\ worker' = Raise(worker, TheValue(BeforeChild(TheSourceConfig.repo)), now,
                             HGetAll(JobKey(worker.args.job_id)))
          /\ UNCHANGED children
     ELSE /\ children' = children \cup
                           {CloneChild(TheSourceConfig.repo, TheSourceConfig.branch, RepoDir,
                                       TheProvider(TheSourceConfig.repo))}
          /\ worker' =
               IF ~ok
               THEN Raise(worker, ErrClone, now, HGetAll(JobKey(worker.args.job_id)))
               ELSE [worker EXCEPT !.pc = "cloned",
                                   !.run = Some([playbook |-> JoinPath(RepoDir, TheSourceConfig.path),
                                                 repo_dir |-> RepoDir, links |-> links])]
  /\ UNCHANGED <<now, ticks, redis, expiry, db, queue, nextId, api, recovery, client, crashed, git_providers, resolved>>

TheRun == TheValue(worker.run)

\* the containment check: RuntimeError when the resolved path is outside the
\* repo, otherwise run_playbook(playbook=playbook_path, ...) is invoked
GitPathCheck ==
  /\ worker.pc = "cloned"
  /\ worker' =
       IF PathInsideRepo(TheRun.links, TheRun.playbook, TheRun.repo_dir)
       THEN [worker EXCEPT !.pc = "run",
                           !.runner = Some(RunPlaybook(TheRun.playbook, TheValue(worker.job).extra_vars,
                                                       TheValue(worker.job).inventory, None, None, None))]
       ELSE [Raise(worker, ErrOutsideRepo, now, HGetAll(JobKey(worker.args.job_id)))
               EXCEPT !.run = None]
  /\ UNCHANGED <<now, ticks, redis, expiry, db, queue, nextId, api, recovery, client, crashed, git_providers, resolved, children>>

\* run_playbook returns; the temp directory is gone
GitRunReturns(rc) ==
  /\ worker.pc = "run"
  /\ worker' = [TerminalCall(worker, rc, now, HGetAll(JobKey(worker.args.job_id)))
                  EXCEPT !.run = None]
  /\ UNCHANGED <<now, ticks, redis, expiry, db, queue, nextId, api, recovery, client, crashed, git_providers, resolved, children>>

\* run_playbook raises
GitRunRaises ==
  /\ worker.pc = "run"
  /\ worker' = [Raise(worker, ErrExec, now, HGetAll(JobKey(worker.args.job_id)))
                  EXCEPT !.run = None]
  /\ UNCHANGED <<now, ticks, redis, expiry, db, queue, nextId, api, recovery, client, crashed, git_providers, resolved, children>>

NextGit ==
  \/ \E req \in Requests : SubmitJob(req)
  \/ \E ok \in BOOLEAN : CreateJobHSet(ok)
  \/ \E ok \in BOOLEAN : CreateJobExpire(ok)
  \/ \E ok \in BOOLEAN : CreateJobDb(ok)
  \/ \E sc \in PlaybookSourceConfigs, ok \in BOOLEAN : EnqueueSource(sc, ok)
  \/ Dequeue
  \/ \E ok \in BOOLEAN : UpdateStatusRedis(ok)
  \/ \E ok \in BOOLEAN : UpdateStatusDb(ok)
  \/ \E links \in FileSystems, ok \in BOOLEAN : GitClone(links, ok)
  \/ GitPathCheck
  \/ \E rc \in ReturnCodes : GitRunReturns(rc)
  \/ GitRunRaises

\* the worker executing jobs whose source is a playbook in a Git repository
SpecGit == Init /\ [][NextGit]_vars

\* ---- the git-role path of the worker: _execute_git_role (worker.py) ----
CollectionsDir == TmpDir \o <<"collections">>

WrapperPath == TmpDir \o <<"wrapper_playbook.yml">>

\* a collection: its namespace and its name
Collection(namespace, name) == [namespace |-> namespace, name |-> name]

\* role names are sequences of the parts between dots: role.count(".") = Len(role) - 1
RoleNames ==
  {<<"nginx">>, <<"nginx", "conf_setup">>, <<"mycompany", "infra", "nginx">>,
   <<"community", "general", "nginx">>}

\* RoleSourceConfig descriptors as execute_job takes them
RoleSourceConfigs ==
  {[type |-> "role", repo |-> Url("https", "gitlab.company.com", <<"platform-team", "repo.git">>),
    branch |-> "main", role |-> r, role_vars |-> {<<"port", "80">>}] : r \in RoleNames}
  \cup {[type |-> "role", repo |-> Url("https", "github.com", <<"evil", "repo.git">>),
         branch |-> "main", role |-> <<"nginx">>, role_vars |-> {}]}

IsGitRole(w) ==
  /\ w.job # None
  /\ TheValue(w.job).source_config # None
  /\ TheValue(TheValue(w.job).source_config).type = "role"

\* what a successful ansible-galaxy run leaves: the collections named by the
\* "Installing '<ns>.<name>:" lines of its stdout, in order, and the galaxy.yml
\* files under collections_dir/ansible_collections/*/*/
Installed(stdout, galaxy_files) == [stdout |-> stdout, galaxy_files |-> galaxy_files]

Installs ==
  {Installed(<<Collection("mycompany", "infra")>>, {Collection("mycompany", "infra")}),
   Installed(<<Collection("mycompany", "infra"), Collection("community", "general")>>,
             {Collection("mycompany", "infra"), Collection("community", "general")}),
   Installed(<<>>, {Collection("mycompany", "infra")}),
   Installed(<<>>, {Collection("mycompany", "infra"), Collection("community", "general")}),
   Installed(<<>>, {})}

\* _parse_primary_collection: the first match of the regex, None without a match
ParsePrimaryCollection(stdout) == IF stdout = <<>> THEN None ELSE Some(stdout[1])

RuntimeError(msg) == [ok |-> FALSE, error |-> msg, fqcn |-> <<>>]

Fqcn(parts) == [ok |-> TRUE, error |-> "", fqcn |-> parts]

ErrNoGalaxy == "No galaxy.yml found"

ErrManyGalaxy == "Multiple collections found"

\* a resolution that takes one dot for a fully qualified name
ResolveFqcnOneDot(role, galaxy_files, collection_info) ==
  IF Len(role) - 1 >= 1 THEN Fqcn(role)
  ELSE IF collection_info # None
  THEN Fqcn(<<TheValue(collection_info).namespace, TheValue(collection_info).name>> \o role)
  ELSE IF galaxy_files = {} THEN RuntimeError(ErrNoGalaxy)
  ELSE IF Cardinality(galaxy_files) > 1 THEN RuntimeError(ErrManyGalaxy)
  ELSE Fqcn(<<TheValue(galaxy_files).namespace, TheValue(galaxy_files).name>> \o role)

\* resolve_fqcn(role, collections_dir, collection_info)
ResolveFqcn(role, galaxy_files, collection_info) ==
  IF Len(role) - 1 >= 2 THEN Fqcn(role)
  ELSE IF collection_info # None
  THEN Fqcn(<<TheValue(collection_info).namespace, TheValue(collection_info).name>> \o role)
  ELSE IF galaxy_files = {} THEN RuntimeError(ErrNoGalaxy)
  ELSE IF Cardinality(galaxy_files) > 1 THEN RuntimeError(ErrManyGalaxy)
  ELSE Fqcn(<<TheValue(galaxy_files).namespace, TheValue(galaxy_files).name>> \o role)

\* generate_role_wrapper_playbook: one play with one role entry; the entry has
\* vars only when role_vars is not empty
GenerateRoleWrapperPlaybook(fqcn, role_vars) ==
  <<[name |-> <<"Run role ">> \o fqcn, hosts |-> "all", gather_facts |-> TRUE,
     roles |-> <<[role |-> fqcn, vars |-> IF role_vars # {} THEN Some(role_vars) ELSE None]>>]>>

\* validate_repo_url and install_collection: either raises, or the collection is
\* installed under collections_dir
GitInstall(installed, ok) ==
  /\ worker.pc = "execute"
  /\ IsGitRole(worker)
  /\ IF BeforeChild(TheSourceConfig.repo) # None
     THEN /\ worker' = Raise(worker, TheValue(BeforeChild(TheSourceConfig.repo)), now,
                             HGetAll(JobKey(worker.args.job_id)))
          /\ UNCHANGED children
     ELSE /\ children' = children \cup
                           {InstallChild(TheSourceConfig.repo, TheSourceConfig.branch, CollectionsDir,
                                         TheProvider(TheSourceConfig.repo))}
          /\ worker' =
               IF ~ok
               THEN Raise(worker, ErrInstall, now, HGetAll(JobKey(worker.args.job_id)))
               ELSE [worker EXCEPT !.pc = "installed",
                                   !.run = Some([collection_info |-> ParsePrimaryCollection(installed.stdout),
                                                 galaxy_files |-> installed.galaxy_files])]
  /\ UNCHANGED <<now, ticks, redis, expiry, db, queue, nextId, api, recovery, client, crashed, git_providers, resolved>>

\* resolve_fqcn raises, or the wrapper playbook is written and run_playbook is
\* invoked on it with ANSIBLE_COLLECTIONS_PATH
GitResolveFqcn ==
  /\ worker.pc = "installed"
  /\ LET resolution == ResolveFqcn(TheSourceConfig.role, TheRun.galaxy_files, TheRun.collection_info)
     IN  worker' =
           IF ~resolution.ok
           THEN [Raise(worker, resolution.error, now, HGetAll(JobKey(worker.args.job_id)))
                   EXCEPT !.run = None]
           ELSE [worker EXCEPT !.pc = "run",
                               !.run = Some([wrapper |-> GenerateRoleWrapperPlaybook(
                                                           resolution.fqcn, TheSourceConfig.role_vars)]),
                               !.runner = Some(RunPlaybook(WrapperPath, TheValue(worker.job).extra_vars,
                                                 TheValue(worker.job).inventory, None,
                                                 Some({<<"ANSIBLE_COLLECTIONS_PATH", CollectionsDir>>}),
                                                 None))]
  /\ UNCHANGED <<now, ticks, redis, expiry, db, queue, nextId, api, recovery, client, crashed, git_providers, resolved, children>>

\* ---- source dispatch of execute_job ----
ErrUnknownSource(type) == "Unknown source type: " \o type

\* the else branch of the dispatch: ValueError, caught by the handler
DispatchUnknown ==
  /\ worker.pc = "execute"
  /\ TheValue(worker.job).source_config # None
  /\ TheSourceConfig.type \notin {"playbook", "role"}
  /\ worker' = Raise(worker, ErrUnknownSource(TheSourceConfig.type), now,
                     HGetAll(JobKey(worker.args.job_id)))
  /\ UNCHANGED <<now, ticks, redis, expiry, db, queue, nextId, api, recovery, client, crashed, git_providers, resolved, children>>

\* InlineInventoryConfig mappings
InlineInventories == {[type |-> "inline", data |-> {<<"webservers", "10.0.1.10">>}]}

\* enqueue_job with an inline inventory and no source_config, then the 202 answer
EnqueueInline(inventory, ok) ==
  /\ api.pc = "enqueue"
  /\ api.request = None
  /\ queue' = IF ok
              THEN Enqueued(queue, TheJob.job_id, TheJob.playbook, TheJob.extra_vars,
                            inventory, None, None)
              ELSE queue
  /\ api' = ApiAnswered(IF ok THEN 202 ELSE 500)
  /\ UNCHANGED <<now, ticks, redis, expiry, db, nextId, worker, recovery, client, crashed, git_providers, resolved, children>>

\* a descriptor whose source_config has a type the dispatch does not know
OtherSourceConfigs == {[type |-> "local", target |-> "playbook", path |-> "hello.yml"]}

\* execute_job on every kind of descriptor
NextWorker ==
  \/ NextGit
  \/ \E ok \in BOOLEAN : EnqueueJob(ok)
  \/ \E inventory \in InlineInventories, ok \in BOOLEAN : EnqueueInline(inventory, ok)
  \/ \E sc \in RoleSourceConfigs \cup OtherSourceConfigs, ok \in BOOLEAN : EnqueueSource(sc, ok)
  \/ \E rc \in ReturnCodes : ExecuteReturns(rc)
  \/ ExecuteRaises
  \/ \E installed \in Installs, ok \in BOOLEAN : GitInstall(installed, ok)
  \/ GitResolveFqcn
  \/ DispatchUnknown

SpecWorker == Init /\ [][NextWorker]_vars

\* ---- intake and worker together: the descriptors of submit_job reach execute_job ----
NextService ==
  \/ NextIntake
  \/ Dequeue
  \/ \E ok \in BOOLEAN : UpdateStatusRedis(ok)
  \/ \E ok \in BOOLEAN : UpdateStatusDb(ok)
  \/ DispatchUnknown

SpecService == Init /\ [][NextService]_vars

\* ---- validate_repo_url under every provider configuration ----
ProviderRecords == {AzureIt, AzurePlatform, GitLab}

\* the values GIT_PROVIDERS can hold: JSON arrays of provider records
ProviderConfigs == UNION {[1..n -> ProviderRecords] : n \in 0..MaxProviders}

\* the service starts with one of the provider configurations
InitPolicy ==
  /\ now = 0
  /\ ticks = 0
  /\ redis = [k \in {} |-> EmptyHash]
  /\ expiry = [k \in {} |-> 0]
  /\ db = [j \in {} |-> 0]
  /\ queue = <<>>
  /\ nextId = 1
  /\ api = ApiIdle
  /\ worker = WorkerIdle
  /\ recovery = RecoveryIdle
  /\ client = ClientInit
  /\ crashed = {}
  /\ git_providers \in ProviderConfigs
  /\ resolved = None
  /\ children = {}

\* one call validate_repo_url(url, load_providers())
ValidateRepoUrlCall(url) ==
  /\ resolved' = Some([url |-> url, outcome |-> ValidateRepoUrl(url, git_providers)])
  /\ UNCHANGED <<now, ticks, redis, expiry, db, queue, nextId, api, worker, recovery, client,
                 crashed, git_providers, children>>

NextPolicy == \E url \in Urls : ValidateRepoUrlCall(url)

SpecPolicy == InitPolicy /\ [][NextPolicy]_vars

\* the parameters of execute_job; source_config has a default, the others are required
ExecuteJobParams == {"job_id", "playbook", "extra_vars", "inventory", "source_config"}

ExecuteJobRequired == {"job_id", "playbook", "extra_vars", "inventory"}

\* Python binds the keyword arguments of a call: an unexpected keyword or a
\* missing required argument is a TypeError
Binds(kwargs) ==
  /\ DOMAIN kwargs \subseteq ExecuteJobParams
  /\ ExecuteJobRequired \subseteq DOMAIN kwargs

\* ---- vocabulary of the properties ----
Terminal == {SUCCESSFUL, FAILED}

\* the order pending < running < {successful, failed}
Rank(status) == CASE status = PENDING -> 0 [] status = RUNNING -> 1 [] OTHER -> 2

\* the edges of the status DAG
Edges == {<<PENDING, RUNNING>>, <<RUNNING, SUCCESSFUL>>, <<RUNNING, FAILED>>, <<PENDING, FAILED>>}

HasEphemeral(j) == Exists(JobKey(j))

HasDurable(j) == j \in DOMAIN db

EphStatus(j) == GetStr(HGetAll(JobKey(j)), "status")

\* ---- create_job ----
\* the step in which repository.create raises inside create_job
CreateJobDbRaises == api.pc = "db_create" /\ api'.pc = "idle" /\ api'.code = 500

\* C1: when the durable write of create_job raises, the ephemeral key written
\* earlier by the same call is deleted: after the failed call Redis holds no
\* record for that job id.
C1_CreateRollsBackRedis ==
  [][CreateJobDbRaises => JobKey(TheJob.job_id) \notin DOMAIN redis']_vars

\* create_job has returned normally and submit_job has not yet called enqueue_job
CreateJobReturned == api.pc = "enqueue"

\* C4: after create_job returns normally both tiers hold a record for the
\* returned job id, each with status pending and the playbook, extra_vars and
\* inventory of the call.
C4_CreateWritesBothTiers ==
  CreateJobReturned =>
    /\ HasEphemeral(TheJob.job_id)
    /\ HasDurable(TheJob.job_id)
    /\ LET h == HGetAll(JobKey(TheJob.job_id))
           row == db[TheJob.job_id]
       IN  /\ GetStr(h, "status") = PENDING
           /\ row.status = PENDING
           /\ GetStr(h, "playbook") = TheJob.playbook
           /\ row.playbook = TheJob.playbook
           /\ GetStr(h, "extra_vars") = JsonDumpsVars(TheJob.extra_vars)
           /\ JsonLoadsVars(GetStr(h, "extra_vars")) = row.extra_vars
           /\ row.extra_vars = TheJob.extra_vars
           /\ GetStr(h, "inventory") = TheJob.inventory
           /\ row.inventory = TheJob.inventory

\* a create_job call has just returned for a request with extra_vars
C4_Witness ==
  /\ CreateJobReturned
  /\ TheJob.extra_vars # {}
  /\ HasEphemeral(TheJob.job_id)
  /\ HasDurable(TheJob.job_id)

\* ---- update_status ----
\* the step in which repository.update_status raises inside update_status
UpdateStatusDbRaises ==
  /\ worker.pc = "update_db"
  /\ \/ worker'.exc # None
     \/ worker.site = "terminal" /\ worker'.site = "handler"

\* C2: when the durable write of update_status raises, the ephemeral record of
\* the job is exactly what it was before the call (the durable write comes first).
C2_UpdateLeavesRedisOnDbFailure ==
  [][UpdateStatusDbRaises => HGetAll(JobKey(worker.args.job_id))' = worker.before]_vars

\* C3: for every job with an ephemeral record, the durable status is the same
\* as or later than the ephemeral status (pending < running < terminal).
C3_DurableNotBehindEphemeral ==
  \A j \in JobIds :
    (HasEphemeral(j) /\ HasDurable(j) /\ EphStatus(j) \in JobStatus)
      => Rank(db[j].status) >= Rank(EphStatus(j))

\* ---- the status DAG ----
\* C7: every change of a job's status, in either tier, follows an edge of
\* pending -> running -> {successful, failed}, pending -> failed.
C7_StatusChangesFollowEdges ==
  [][\A j \in JobIds :
       /\ (HasDurable(j) /\ HasDurable(j)' /\ db[j].status # db'[j].status)
            => <<db[j].status, db'[j].status>> \in Edges
       /\ (HasEphemeral(j) /\ HasEphemeral(j)' /\ EphStatus(j) # EphStatus(j)')
            => <<EphStatus(j), EphStatus(j)'>> \in Edges]_vars

\* the fields a terminal record must keep, per tier
DurableOutcome(j) == <<db[j].status, db[j].result_rc, db[j].error, db[j].finished_at>>

EphemeralOutcome(j) ==
  LET h == HGetAll(JobKey(j))
  IN  <<GetStr(h, "status"), GetStr(h, "result"), GetStr(h, "error"), GetStr(h, "finished_at")>>

\* C8: once a job's record is terminal in a tier, no later step of the worker
\* or of recovery changes its status, result, error or finished_at there.
C8_TerminalRecordsAreFrozen ==
  [][\A j \in JobIds :
       /\ (HasDurable(j) /\ db[j].status \in Terminal) => DurableOutcome(j)' = DurableOutcome(j)
       /\ (HasEphemeral(j) /\ HasEphemeral(j)' /\ EphStatus(j) \in Terminal)
            => EphemeralOutcome(j)' = EphemeralOutcome(j)]_vars

\* C9: every job whose durable status is terminal has finished_at set.
C9_TerminalHasFinishedAt ==
  \A j \in JobIds :
    (HasDurable(j) /\ db[j].status \in Terminal) => db[j].finished_at # None

\* C10: in each tier, a record that holds a result is successful iff result.rc = 0.
C10_ResultMatchesStatus ==
  \A j \in JobIds :
    /\ (HasDurable(j) /\ db[j].result_rc # None)
         => (db[j].status = SUCCESSFUL <=> TheValue(db[j].result_rc) = 0)
    /\ (HasEphemeral(j) /\ GetStr(HGetAll(JobKey(j)), "result") # "")
         => (EphStatus(j) = SUCCESSFUL <=> JsonLoadsResult(GetStr(HGetAll(JobKey(j)), "result")).rc = 0)

\* ---- GET /api/v1/jobs/{id} ----
\* C5: the statuses returned by successive GETs of a job never move backwards
\* in pending < running < {successful, failed}.
C5_PolledStatusNeverRegresses ==
  (client.prev # None /\ client.last # None)
    => Rank(TheValue(client.last)) >= Rank(TheValue(client.prev))

\* the handler has answered and no store read raised
Answered == client.pc = "idle" /\ client.code # 0 /\ ~client.storeError

\* the answer carries the fields of the hash that was read from Redis
BodyIsEphemeralRecord ==
  /\ client.body # None
  /\ LET b == TheValue(client.body)
     IN  /\ b.job_id = GetStr(client.data, "job_id")
         /\ b.status = GetStr(client.data, "status")
         /\ b.playbook = GetStr(client.data, "playbook")
         /\ b.created_at = GetStr(client.data, "created_at")

\* the answer carries the fields of the row that was read from the table
BodyIsDurableRecord ==
  /\ client.body # None
  /\ LET b == TheValue(client.body)
         row == TheValue(client.row)
     IN  /\ b.job_id = ToString(row.id)
         /\ b.status = row.status
         /\ b.playbook = row.playbook
         /\ b.finished_at # None <=> row.finished_at # None

\* C6: GET returns the ephemeral record when one exists, without reading the
\* durable store; otherwise the durable record; 404 exactly when neither tier
\* holds the id.
C6_GetReadsEphemeralThenDurable ==
  Answered =>
    /\ client.data # EmptyHash => (client.code = 200 /\ BodyIsEphemeralRecord /\ ~client.readDb)
    /\ (client.data = EmptyHash /\ client.row # None) => (client.code = 200 /\ BodyIsDurableRecord)
    /\ client.code = 404 <=> (client.data = EmptyHash /\ client.row = None)

\* ---- startup recovery (C11, C12, C13) ----
\* the job the loop of recover_stale_jobs is examining
Examined == Head(recovery.stale)

Range(seq) == {seq[i] : i \in 1..Len(seq)}

\* the step in which the scan returns its list
ScanReturned == recovery.pc = "scan" /\ recovery'.pc # "scan" /\ recovery'.exc = None

\* the step in which the loop is done with the examined job without an exception
LeavesExamined ==
  /\ recovery.pc \in {"exists", "update"}
  /\ recovery'.exc = None
  /\ recovery'.pc = "idle" \/ Len(recovery'.stale) < Len(recovery.stale)

\* the step in which the startup hook ends, with or without a swallowed exception
StartupEnds == recovery.pc # "idle" /\ recovery'.pc = "idle"

\* the step in which the startup hook ends and recover_stale_jobs raised nothing
StartupCompleted == StartupEnds /\ recovery'.exc = None

\* jobs with durable status running, started_at older than the threshold, and no key
StaleOrphans == {j \in ListStaleRunningJobs(db, now) : ~Exists(JobKey(j))}

MarkedByRecovery(table, j) ==
  /\ j \in DOMAIN table
  /\ table[j].status = FAILED
  /\ table[j].error = Some("Worker crashed or timed out")

CrashedRunning(j) == j \in crashed /\ j \in DOMAIN db /\ db[j].started_at # None

ExecuteJobEnds == worker.pc # "idle" /\ worker'.pc = "idle" /\ crashed' = crashed

\* C14: every job taken from the queue (an async submission answered 202 put it
\* there) has a terminal durable status when execute_job ends; the job is run at
\* most once, so a job that is not terminal then never becomes terminal through
\* the worker
C14_AcceptedJobEndsTerminal ==
  [][ExecuteJobEnds =>
       /\ worker.args.job_id \in DOMAIN db'
       /\ db'[worker.args.job_id].status \in Terminal]_vars

\* ---- the queue round trip and the order of create and enqueue (C15, C16) ----
DescriptorKeys == {"job_id", "playbook", "extra_vars", "inventory", "source_config", "options"}

\* the step in which enqueue_job has put a descriptor on the queue
EnqueueStep == api.pc = "enqueue" /\ queue' # queue

\* C15: the descriptor rq holds for the worker function after enqueue_job has
\* the six keys job_id, playbook, extra_vars, inventory, source_config and
\* options, each with the value submit_job passed to enqueue_job; the job_id is
\* the caller's
C15_QueueRoundTrip ==
  [][EnqueueStep =>
       /\ Len(queue') = Len(queue) + 1
       /\ \A i \in 1..Len(queue') : DOMAIN queue'[i] = DescriptorKeys
       /\ LET d == queue'[Len(queue')]
          IN  /\ d.job_id = TheJob.job_id
              /\ d.playbook = PlaybookName(TheRequest.source)
              /\ d.extra_vars = TheRequest.extra_vars
              /\ d.inventory = InventoryDump(TheRequest.inventory)
              /\ d.source_config = Some(BuildSourceConfig(TheRequest.source))
              /\ d.options = OptionsDump(TheRequest.options)]_vars

C15_Witness ==
  /\ queue # <<>>
  /\ Head(queue).job_id = 1
  /\ Head(queue).source_config # None
  /\ TheValue(Head(queue).source_config).type = "git"
  /\ Head(queue).options = Some({<<"check", TRUE>>})

\* the step in which the handler answers 202
Answers202 == api.pc # "idle" /\ api'.pc = "idle" /\ api'.code = 202

Submits(x) == api.pc = "idle" /\ api' # api /\ api'.request = Some(x)

\* the submission is answered with the code and nothing was created, enqueued or run
RejectedWith(code) ==
  /\ api'.pc = "idle"
  /\ api'.code = code
  /\ api'.job = None
  /\ UNCHANGED <<redis, expiry, db, queue, nextId>>

Submissions == [req : JobRequests, sync : BOOLEAN]

\* C17: a submission with sync=true whose source is a Git source or whose
\* inventory is a Git inventory is answered 400; no job is created in either
\* tier, nothing is enqueued and the runner is not invoked
C17_SyncRejectsGit ==
  [][\A x \in Submissions :
       (/\ Submits(x)
        /\ x.sync
        /\ x.req.source.type = "git" \/ x.req.inventory.class = "GitInventory")
       => RejectedWith(400)]_vars

C17_Witness ==
  /\ api.pc = "idle"
  /\ api.code = 400
  /\ api.request # None
  /\ TheValue(api.request).sync
  /\ TheRequest.source.type = "local"
  /\ TheRequest.inventory.class = "GitInventory"

\* the repo URL is not https, its host is not configured, or its organization
\* is not in the host's allowed list
FailsPolicy(url) ==
  \/ url.scheme # "https"
  \/ url.hostname \notin {Providers[i].host : i \in 1..Len(Providers)}
  \/ \E i \in 1..Len(Providers) :
       /\ Providers[i].host = url.hostname
       /\ url.path # <<>>
       /\ url.path[1] # ""
       /\ url.path[1] \notin Providers[i].orgs

\* C18: a submission with a Git source whose repo URL fails Provider Policy is
\* answered 400 and neither create_job nor enqueue_job is invoked for it
C18_PolicyFailureRejected ==
  [][\A x \in Submissions :
       (Submits(x) /\ x.req.source.type = "git" /\ FailsPolicy(x.req.source.repo))
       => RejectedWith(400)]_vars

C18_Witness ==
  /\ api.pc = "idle"
  /\ api.code = 400
  /\ api.request # None
  /\ ~TheValue(api.request).sync
  /\ TheRequest.source.type = "git"
  /\ api.detail = "Repository not allowed: org 'other' is not in allowed list for dev.azure.com"

\* C19: a submission of a local playbook source whose file does not exist under
\* the playbooks directory (with a string inventory) is answered 404, creates
\* no job and enqueues nothing, without the sync flag as well as with sync=true
C19_MissingPlaybookIs404 ==
  [][\A x \in Submissions :
       (/\ Submits(x)
        /\ x.req.source.type = "local"
        /\ x.req.source.target = "playbook"
        /\ x.req.source.path \notin PlaybooksDir
        /\ x.req.inventory.class = "str")
       => RejectedWith(404)]_vars

\* ---- path containment in the git-playbook path (C20) ----
\* the real path of the joined playbook path leaves the real path of the clone
Escapes(run) ==
  LET real == Resolve(run.links, run.playbook)
      root == Resolve(run.links, run.repo_dir)
  IN  \E i \in 1..Len(root) : Len(real) < i \/ real[i] # root[i]

\* C20: while the runner is invoked on a cloned repo, the real path of its
\* playbook lies under the real path of the clone directory; when the requested
\* path escapes the clone the next step of the worker is the handler's
\* update_status(failed, error = "Playbook path resolves outside repo directory")
\* and never the runner, and when that update returns the durable row is failed
\* with that error
C20_RunnerStaysInsideClone ==
  [][/\ worker'.pc = "run" => ~Escapes(TheValue(worker'.run))
     /\ (worker.pc = "cloned" /\ Escapes(TheRun) /\ worker' # worker)
          => /\ worker'.pc = "update_redis"
             /\ worker'.site = "handler"
             /\ worker'.args.status = FAILED
             /\ worker'.args.error = Some("Playbook path resolves outside repo directory")
     /\ (/\ worker.pc = "update_db"
         /\ worker.site = "handler"
         /\ worker.args.error = Some("Playbook path resolves outside repo directory")
         /\ worker'.pc = "idle"
         /\ worker'.exc = None)
          => /\ db'[worker.args.job_id].status = FAILED
             /\ db'[worker.args.job_id].error = Some("Playbook path resolves outside repo directory")]_vars

C20_Witness ==
  \E j \in DOMAIN db :
    /\ db[j].status = FAILED
    /\ db[j].error = Some("Playbook path resolves outside repo directory")
    /\ db[j].result_rc = None

\* ---- provider policy (C21) ----
\* the first non-empty segment of the path is one of orgs
FirstSegmentIn(path, orgs) ==
  \E i \in 1..Len(path) :
    /\ path[i] # ""
    /\ \A k \in 1..(i - 1) : path[k] = ""
    /\ path[i] \in orgs

HostConfigured(host) == \E i \in 1..Len(git_providers) : git_providers[i].host = host

\* the first record of git_providers that has the host
IsFirstOfHost(i, host) ==
  /\ git_providers[i].host = host
  /\ \A k \in 1..(i - 1) : git_providers[k].host # host

TheCall == TheValue(resolved)

Credentials ==
  {Environ[git_providers[i].credential_env] :
     i \in {k \in 1..Len(git_providers) : git_providers[k].credential_env \in DOMAIN Environ}}

\* C22: for every child process started by clone_repo and install_collection, no
\* element of the argument vector contains a credential, and the environment
\* carries GIT_ASKPASS, GIT_TERMINAL_PROMPT = 0 and, in _GIT_CREDENTIAL, the
\* credential of the provider record matched for the repo URL.
C22_CredentialOnlyInEnvironment ==
  \A c \in children :
    /\ \A i \in 1..Len(c.argv) : \A secret \in Credentials : ~Contains(c.argv[i], secret)
    /\ {"GIT_ASKPASS", "GIT_TERMINAL_PROMPT", "_GIT_CREDENTIAL"} \subseteq DOMAIN c.env
    /\ c.env["GIT_TERMINAL_PROMPT"] = "0"
    /\ c.env["GIT_ASKPASS"] # ""
    /\ \E i \in 1..Len(git_providers) :
         /\ IsFirstOfHost(i, c.repo.hostname)
         /\ git_providers[i].credential_env \in DOMAIN Environ
         /\ c.env["_GIT_CREDENTIAL"] = Environ[git_providers[i].credential_env]

\* install_collection has started ansible-galaxy for a repository of the second
\* provider, with that provider's credential
C22_Witness ==
  \E c \in children :
    /\ c.argv[1] = <<"ansible-galaxy">>
    /\ c.repo.hostname = "gitlab.company.com"
    /\ c.env["_GIT_CREDENTIAL"] = "gitlab-secret"

\* ---- the ephemeral round trip (C23) ----
\* the Job as get_job builds it from the hash of the key
ReadBack(hash) == DeserializeJob(hash)

\* the step in which _save_job has issued its HSET and Redis was reachable
SaveJobHSet == api.pc = "save_hset" /\ api'.pc # "save_hset" /\ api'.exc # Some(ErrStore)

\* C23: saving a Job and reading it back with get_job yields an equal Job, for a
\* string inventory and for an inventory mapping, absent optional fields being
\* read back as absent.
C23_SavedJobReadsBackEqual ==
  [][SaveJobHSet =>
       \E job \in api.job :
         /\ Exists(JobKey(job.job_id))'
         /\ CanDeserialize(redis'[JobKey(job.job_id)])
         /\ ReadBack(redis'[JobKey(job.job_id)]) = [job EXCEPT !.job_id = ToString(@)]]_vars

\* ---- readers and partial records (C24) ----
\* the fields _save_job writes for every job
SaveJobFields == DOMAIN SaveJobData(NewJob(0, "", {}, "", 0))

\* C24: what HGETALL hands to get_job is, at every point of every interleaving,
\* either nothing or a hash holding every field create_job wrote, never only the
\* fields of an update_status.
C24_ReaderSeesNothingOrCompleteRecord ==
  client.data = EmptyHash \/ SaveJobFields \subseteq DOMAIN client.data

\* ---- partial updates (C25) ----
\* an earlier update_status call of this run wrote Redis and raised on the row
PartialUpdate == \E site \in {"running", "terminal", "handler"} : <<site, "db">> \in worker.write_errors

\* the step in which an update_status call of the worker returns normally
UpdateReturns ==
  /\ worker.pc = "update_db"
  /\ worker'.pc \in {"idle", "execute"}
  /\ worker'.exc = None
  /\ crashed' = crashed

\* C25: when an update_status call has written Redis and failed on the row, the
\* next update_status call for the job that returns normally leaves Redis and the
\* row with the same status, the one it was called with, and the JobDetail built
\* from the row (the fallback read) carries that status.
C25_NextUpdateReconcilesTiers ==
  [][PartialUpdate /\ UpdateReturns =>
       /\ JobKey(worker.args.job_id) \in DOMAIN redis'
       /\ worker.args.job_id \in DOMAIN db'
       /\ GetStr(redis'[JobKey(worker.args.job_id)], "status") = worker.args.status
       /\ db'[worker.args.job_id].status = worker.args.status
       /\ JobDetailOfRow(db'[worker.args.job_id]).status = worker.args.status]_vars

\* the terminal update reached Redis only (a result there, none in the row) and
\* the handler's update has then written failed with the store's error to both
C25_Witness ==
  \E j \in DOMAIN db :
    /\ JobKey(j) \in DOMAIN redis
    /\ "result" \in DOMAIN redis[JobKey(j)]
    /\ db[j].result_rc = None
    /\ db[j].status = FAILED
    /\ db[j].error = Some(ErrStore)
    /\ GetStr(redis[JobKey(j)], "status") = FAILED
    /\ GetStr(redis[JobKey(j)], "error") = ErrStore

\* ---- the status updates of one run (C26) ----
\* update_status(job_id, RUNNING, started_at=...)
IsRunningUpdate(a) ==
  /\ a.status = RUNNING
  /\ a.started_at # None
  /\ a.finished_at = None /\ a.result = None /\ a.error = None

\* update_status(job_id, SUCCESSFUL if rc == 0 else FAILED, finished_at=..., result=...)
IsResultUpdate(a) ==
  /\ a.finished_at # None
  /\ a.result # None
  /\ a.status = (IF TheValue(a.result).rc = 0 THEN SUCCESSFUL ELSE FAILED)
  /\ a.started_at = None /\ a.error = None

\* the first update_status call of the run is still in progress
FirstUpdatePending == worker.site = "running" /\ worker.pc \in {"update_redis", "update_db"}

\* execute_job returns and no store write of the run has raised
EndsWithoutWriteFailure == ExecuteJobEnds /\ worker.write_errors = {} /\ worker'.exc = None

\* C26: in a run of execute_job in which no store write fails, the first update
\* is running with started_at and it is issued and has returned before any
\* materialization step or the runner is invoked; when the run ends exactly two
\* updates have been issued, the second is terminal with finished_at, and when the
\* runner returned a return code it is successful for rc 0 and failed otherwise,
\* with the result.
C26_RunningThenOneTerminalUpdate ==
  /\ [](worker.pc # "idle" =>
          /\ Len(worker.calls) >= 1
          /\ IsRunningUpdate(worker.calls[1])
          /\ worker.calls[1].job_id = TheValue(worker.job).job_id
          /\ FirstUpdatePending => worker.runner = None /\ worker.run = None /\ Len(worker.calls) = 1)
  /\ [][EndsWithoutWriteFailure =>
          /\ Len(worker.calls) = 2
          /\ worker.calls[2].job_id = worker.calls[1].job_id
          /\ worker.calls[2].status \in {SUCCESSFUL, FAILED}
          /\ worker.calls[2].finished_at # None
          /\ worker.raised = None => IsResultUpdate(worker.calls[2])]_vars

\* a run on a git source has ended with rc 2: both tiers hold failed with the result
C26_Witness ==
  /\ worker.pc = "idle"
  /\ worker.exc = None
  /\ children # {}
  /\ \E j \in DOMAIN db :
       /\ db[j].status = FAILED
       /\ db[j].started_at # None
       /\ db[j].finished_at # None
       /\ db[j].result_rc \notin {None, Some(0)}
       /\ db[j].error = None
       /\ JobKey(j) \in DOMAIN redis
       /\ GetStr(redis[JobKey(j)], "status") = FAILED
       /\ GetStr(redis[JobKey(j)], "result") # ""

\* ---- a step of the run raises (C27) ----
\* both tiers hold failed with finished_at, the message as error, and no result
FailedWith(table, store, job_id, msg) ==
  /\ job_id \in DOMAIN table
  /\ table[job_id].status = FAILED
  /\ table[job_id].finished_at # None
  /\ table[job_id].error = Some(msg)
  /\ table[job_id].result_rc = None
  /\ JobKey(job_id) \in DOMAIN store
  /\ GetStr(store[JobKey(job_id)], "status") = FAILED
  /\ GetStr(store[JobKey(job_id)], "finished_at") # ""
  /\ GetStr(store[JobKey(job_id)], "error") = msg
  /\ GetStr(store[JobKey(job_id)], "result") = ""

\* C27: when source dispatch, a materialization step or the runner has raised in
\* a run of execute_job, the run ends with execute_job returning normally and the
\* job failed in both tiers, with finished_at, the exception's message as error
\* and no result.
C27_RaisedRunEndsFailed ==
  [][ExecuteJobEnds /\ worker.raised # None =>
        /\ worker'.exc = None
        /\ FailedWith(db', redis', worker.args.job_id, TheValue(worker.raised))]_vars

\* ---- source dispatch on the descriptors of intake (C28) ----
\* the type values of the source_config mappings submit_job builds
IntakeSourceTypes == {BuildSourceConfig(source).type : source \in Sources}

\* C28: no descriptor that submit_job has put on the queue is rejected by the
\* dispatch of execute_job as an unknown source type; each one selects the
\* execution path of its type and target.
C28_IntakeDescriptorsAreDispatched ==
  \A type \in IntakeSourceTypes : worker.raised # Some(ErrUnknownSource(type))

\* ---- the descriptor against the signature of the worker function (C29) ----
\* C29: execute_job accepts every descriptor enqueue_job has put on the queue,
\* the options key included, so that the options can reach the runner.
C29_WorkerAcceptsEveryDescriptor ==
  \A i \in 1..Len(queue) : Binds(queue[i])

\* ---- the inventory the runner is given (C30) ----
\* the value is one of the inline-inventory mappings (compared by their printed form)
IsInlineMapping(inventory) == ToString(inventory) \in {ToString(m) : m \in InlineInventories}

\* C30: no run_playbook call of the worker has a mapping as its inventory: an
\* inline inventory reaches the runner as the path of a YAML file.
C30_RunnerNeverGetsMapping ==
  worker.runner # None => ~IsInlineMapping(TheValue(worker.runner).inventory)

\* ---- the durable session of execute_job (C31) ----
\* C31: execute_job opens one session, keeps it open while it runs, and has
\* closed it exactly once when it ends, whether it returns or raises: after the
\* terminal update, after the handler's update, and when an update_status call
\* (the first one included) raises out of execute_job.
C31_SessionClosedExactlyOnce ==
  /\ [](worker.pc # "idle" => worker.session = SessionOpen)
  /\ [][ExecuteJobEnds => worker'.session = [opened |-> 1, closed |-> 1]]_vars

\* the first update_status raised on the row: execute_job has ended with the
\* exception, the job running in Redis only, and the session is closed
C31_Witness ==
  /\ worker.pc = "idle"
  /\ worker.exc = Some(ErrStore)
  /\ worker.session = [opened |-> 1, closed |-> 1]
  /\ \E j \in DOMAIN db :
       /\ db[j].status = PENDING
       /\ JobKey(j) \in DOMAIN redis
       /\ GetStr(redis[JobKey(j)], "status") = RUNNING

\* ---- what recovery leaves alone (C32) ----
\* a step of recover_stale_jobs
RecoveryStep == recovery' # recovery

ServesRequests == \E req \in Requests : SubmitJob(req)

\* C33: an exception raised during startup recovery (engine or session creation,
\* the scan, the existence check, the status update) ends the startup hook
\* without leaving it: startup completes, and after it the service accepts
\* submissions.
C33_RecoveryExceptionsContained ==
  /\ [][RecoveryStep /\ recovery'.exc # None => recovery'.pc = "idle"]_vars
  /\ [](recovery.exc # None /\ api.pc = "idle" /\ nextId <= MaxJobs => ENABLED ServesRequests)

\* the status update of recovery raised: the hook has ended, the stale job is
\* still running and keyless
C33_Witness ==
  /\ recovery.pc = "idle"
  /\ recovery.exc = Some(ErrStore)
  /\ StaleOrphans # {}

\* ---- resolve_fqcn (C34) ----
\* the step in which _execute_git_role calls resolve_fqcn
ResolveFqcnStep == worker.pc = "installed" /\ worker' # worker

\* resolve_fqcn returned fqcn: it is the role of the wrapper playbook
ResolvedTo(fqcn) ==
  /\ worker'.raised = None
  /\ worker'.pc = "run"
  /\ TheValue(worker'.run).wrapper[1].roles[1].role = fqcn

\* resolve_fqcn raised RuntimeError(msg)
ResolveFailed(msg) == worker'.raised = Some(msg)

\* with the namespace and name of collection c in front
Qualified(c, role) == <<c.namespace, c.name>> \o role

\* C34: resolve_fqcn returns a role with at least two dots as it is, whatever the
\* primary collection; otherwise the role qualified by the primary collection
\* when there is one; otherwise by the only galaxy.yml under the collections
\* directory, failing when there is none and failing as ambiguous when there are
\* several.
C34_ResolveFqcn ==
  [][ResolveFqcnStep =>
       LET role == TheSourceConfig.role
           primary == TheRun.collection_info
           found == TheRun.galaxy_files
       IN  IF Len(role) >= 3 THEN ResolvedTo(role)
           ELSE IF primary # None THEN \E c \in primary : ResolvedTo(Qualified(c, role))
           ELSE IF found = {} THEN ResolveFailed(ErrNoGalaxy)
           ELSE IF \E c, d \in found : c # d THEN ResolveFailed(ErrManyGalaxy)
           ELSE \E c \in found : ResolvedTo(Qualified(c, role))]_vars

\* the one-dot role nginx.conf_setup has been resolved from the only galaxy.yml
C34_Witness ==
  /\ worker.pc = "run"
  /\ worker.run # None
  /\ "wrapper" \in DOMAIN TheRun
  /\ TheRun.wrapper[1].roles[1].role = <<"mycompany", "infra", "nginx", "conf_setup">>
  /\ TheValue(worker.job).source_config = Some([type |-> "role",
         repo |-> Url("https", "gitlab.company.com", <<"platform-team", "repo.git">>),
         branch |-> "main", role |-> <<"nginx", "conf_setup">>, role_vars |-> {<<"port", "80">>}])

\* ---- recovery against a live worker (C35) ----
\* a worker process is inside execute_job for job j
Executing(j) == worker.pc # "idle" /\ worker.args.job_id = j

\* C35: no job is marked failed by startup recovery while a live worker is
\* executing it, so that no job recovery has failed is completed afterwards.
C35_RecoverySparesLiveJobs ==
  \A j \in DOMAIN db : MarkedByRecovery(db, j) => ~Executing(j)

\* ---- every job key expires (C36) ----
\* _save_job has written the key and is about to issue EXPIRE for it
ExpirePending(key) == api.pc = "save_expire" /\ key = JobKey(TheJob.job_id)

\* C36: every key job:<id> in Redis has a TTL, the key of a create_job that is
\* between its HSET and its EXPIRE excepted: no record is left that never expires.
C36_EveryJobKeyHasTtl ==
  \A key \in DOMAIN redis : key \in DOMAIN expiry \/ ExpirePending(key)

\* ---- pending jobs are waiting for a worker (C37) ----
\* submit_job has created job j and is about to call enqueue_job for it
EnqueuePending(j) == api.pc = "enqueue" /\ TheJob.job_id = j

\* C37: every job whose durable status is pending has its descriptor on the
\* queue or in the hands of a worker, or is about to be enqueued by the
\* submission that created it: a failure of enqueue_job or of the worker's first
\* update_status leaves no pending job that nothing will execute.
C37_PendingJobsAreQueued ==
  \A j \in DOMAIN db :
    db[j].status = PENDING =>
      \/ \E i \in 1..Len(queue) : queue[i].job_id = j
      \/ Executing(j)
      \/ EnqueuePending(j)

\* ---- sync submissions leave the stores alone (C38) ----
\* a step of the handler on a submission with sync=true
SyncStep ==
  \/ api.pc = "sync_run"
  \/ api.pc = "idle" /\ api' # api /\ api'.request # None /\ TheValue(api'.request).sync

\* C38: no step of a sync submission, whatever its answer, changes the table,
\* Redis (hashes and TTLs) or the queue; it creates no Job and takes no job id.
C38_SyncLeavesStoresUnchanged ==
  [][SyncStep =>
       /\ db' = db /\ redis' = redis /\ expiry' = expiry /\ queue' = queue
       /\ nextId' = nextId
       /\ api'.job = None
       /\ api'.pc = "idle" => api'.code \in {200, 400, 404, 500}]_vars

\* a sync run has been answered 200 while an earlier job sits in both tiers and
\* on the queue
C38_Witness ==
  /\ api.pc = "idle"
  /\ api.code = 200
  /\ api.request # None
  /\ TheValue(api.request).sync
  /\ DOMAIN db # {}
  /\ DOMAIN redis # {}
  /\ queue # <<>>

\* ---- several providers of one host (C39) ----
\* some record of git_providers has the host and lists the URL's organization
SomeProviderAllows(url) ==
  \E i \in 1..Len(git_providers) :
    /\ git_providers[i].host = url.hostname
    /\ FirstSegmentIn(url.path, git_providers[i].orgs)

\* C39: validate_repo_url accepts an https URL whenever some configured provider
\* has the URL's host and lists its organization, also when several providers
\* share the host, and the provider it returns lists that organization.
C39_AcceptsWhenAnyProviderOfHostAllows ==
  (resolved # None /\ TheCall.url.scheme = "https" /\ SomeProviderAllows(TheCall.url)) =>
    /\ TheCall.outcome.ok
    /\ \E p \in TheCall.outcome.provider :
         /\ p.host = TheCall.url.hostname
         /\ FirstSegmentIn(TheCall.url.path, p.orgs)

====
